---- MODULE Spec2Model ----
(***************************************************************************)
(* Model of the entity persistence layer of ugorji/go-common (package db,  *)
(* src/osutil/os.go): the three-tier cache (request store, instance cache, *)
(* shared cache) in front of the backend datastore, as driven by Gets,     *)
(* Puts (through Save) and Deletes.                                        *)
(*                                                                         *)
(* One application serves one request at a time.  All keys are of one      *)
(* entity type, whose TypeMeta flags are chosen at the start.  The backend,*)
(* the shared cache and the hooks of the entity are collaborators: each    *)
(* call may meet one error of one of them (a fault).  Entries do not       *)
(* expire between two calls.                                               *)
(***************************************************************************)
EXTENDS Integers, Sequences, FiniteSets, TLC

----------------------------------------------------------------------------
(* Bounds of the model. *)

\* number of distinct complete datastore keys (entity ids 1..NumKeys)
NumKeys == 2
\* number of distinct entity payloads
MaxVal == 2
\* number of calls in one behaviour
MaxOps == 3
\* number of faults the collaborators raise in one behaviour
MaxFaults == 1
\* number of calls in one behaviour that has LoadOne among its calls
MaxLoadOps == 2
\* number of calls in one behaviour of batches whose hooks fail
MaxHookOps == 1

Keys == 1..NumKeys
Vals == 1..MaxVal
\* key batches passed to a multi-key call: up to NumKeys slots, duplicates
\* allowed; and those of a call on one key (Get, Put, Save of one entity)
Batches == UNION {[1..n -> Keys] : n \in 1..NumKeys}
Singles == [1..1 -> Keys]
Idx(s) == 1..Len(s)

----------------------------------------------------------------------------
(* Program constants. *)

EntityCacheKeyPfx == "db/db::"
CacheMiss == 1
CacheNeg == 2
CacheHit == 3

----------------------------------------------------------------------------
(* Errors (zerror, EntityNotFoundError). *)

Nil == [k |-> "nil"]
\* EntityNotFoundError; src tells where it was produced
NotFound(src) == [k |-> "notfound", src |-> src]
\* any error that is neither nil, nor not-found, nor a Multi
Other(src) == [k |-> "other", src |-> src]
\* fmt.Errorf: a new error value that carries only text; args are the values
\* its format prints
Errorf(msg, args) == [k |-> "errorf", msg |-> msg, args |-> args]
Multi(es) == [k |-> "multi", errs |-> es]
Rich(cause) == [k |-> "rich", cause |-> cause]

\* defer zerror.OnErrorf(1, &err, nil): a non-nil error is wrapped
OnErrorf(err) == IF err = Nil THEN Nil ELSE Rich(err)

RECURSIVE Base(_)
Base(err) == IF err.k = "rich" /\ err.cause # Nil THEN Base(err.cause) ELSE err

\* mutation: one not-found element is enough
RECURSIVE IsNotFoundErrorAny(_)
IsNotFoundErrorAny(err) ==
  CASE err.k = "notfound" -> TRUE
    [] err.k = "multi" ->
         \E i \in Idx(err.errs) : IsNotFoundErrorAny(err.errs[i])
    [] OTHER -> FALSE

RECURSIVE IsNotFoundError(_)
IsNotFoundError(err) ==
  CASE err.k = "notfound" -> TRUE
    [] err.k = "multi" ->
         /\ Len(err.errs) > 0
         /\ \A i \in Idx(err.errs) : IsNotFoundError(err.errs[i])
    [] OTHER -> FALSE

HasError(es) == \E i \in Idx(es) : es[i] # Nil

----------------------------------------------------------------------------
(* Entities, cache keys and cache entries. *)

\* an entity: its key field and its payload; Zero is a freshly allocated one
Zero == [id |-> 0, val |-> 0]
Entity(id, val) == [id |-> id, val |-> val]

\* dr.EncodeKey(ctx, key), and the prefixed form used for the instance and
\* shared caches
Raw(k) == <<"", k>>
Pfx(k) == <<EntityCacheKeyPfx, k>>
CacheKeys == {Raw(k) : k \in Keys} \cup {Pfx(k) : k \in Keys}

\* what a store holds under a key: nothing, the negative marker (false), a
\* pointer to an entity (request store, instance cache) or a serialized
\* entity (shared cache)
\* the value false that CachePut is handed for a negative
FalseVal == [t |-> "false"]
NoEntry == [t |-> "none"]
Negative == [t |-> "neg"]
Ref(o) == [t |-> "ref", o |-> o]
Ser(e) == [t |-> "ser", e |-> e]

\* entity objects that a store can point to
Objs == 1..(2 * NumKeys)
EmptyStore == [ck \in CacheKeys |-> NoEntry]

VARIABLES
  tm,          \* the TypeMeta flags of the entity type
  sharedUp,    \* dr.SharedCache(false) != nil
  store,       \* the backend datastore: key -> payload, 0 when absent
  reqStore,    \* ctx.Store(): the request-scoped store
  instStore,   \* dr.InstanceCache()
  sharedStore, \* dr.SharedCache(false)
  heap,        \* the entity objects the stores point to
  last,        \* the last call: its arguments and what it returned
  prev,        \* the call before it
  log,         \* what the last call did, in order
  pre,         \* the stores as the last call found them
  nops,        \* calls made
  nfaults      \* faults raised by collaborators

dbVars == <<tm, sharedUp, store, reqStore, instStore, sharedStore, heap,
            last, prev, log, pre, nops, nfaults>>

\* the process-wide registry of struct metadata and the goroutines calling it
VARIABLES
  StructMetas,      \* reflect.Type -> *TypeMeta
  StructMetaKinds,  \* kind key -> reflect.Type
  structMetasMutex, \* the goroutine holding the mutex, 0 when free
  gsm,              \* each goroutine's position in GetStructMetaFromType
  ret,              \* what each goroutine's last call returned
  parses,           \* how often the tags of each type were parsed
  ncalls            \* calls started

metaVars == <<StructMetas, StructMetaKinds, structMetasMutex, gsm, ret,
              parses, ncalls>>

\* an entity, the datastore key made from it, and the entity made from the key
VARIABLES
  ktm,   \* the TypeMeta of the entity's type
  ent,   \* the entity d
  ent2,  \* a fresh entity of the same type
  kret,  \* what the calls made so far returned, oldest first
  seqId  \* the last id the backend allocated

keyVars == <<ktm, ent, ent2, kret, seqId>>

\* an entity written to a property list and a property list read into a
\* fresh entity
VARIABLES
  oent,    \* the entity d given to OrmFromIntf
  oprops,  \* the PropertyList m
  osrc,    \* where the property list comes from
  oout     \* what OrmToIntf did to the fresh entity

ormVars == <<oent, oprops, osrc, oout>>

\* an error and what IsNotFoundError says of it
VARIABLES
  ierr,  \* the error
  iret   \* the result, once IsNotFoundError has returned

errVars == <<ierr, iret>>

\* a combination generator (combinationgen.T) and its caller
VARIABLES
  combo,   \* the choice slices
  vprops,  \* the slice the caller reads the combinations from
  ictr,    \* x.ictr
  ctr,     \* x.ctr
  xerr,    \* x.err
  gout     \* what the caller has seen, oldest first

genVars == <<combo, vprops, ictr, ctr, xerr, gout>>

\* a tree, the slice it is encoded to and the tree decoded from it
VARIABLES
  troot,   \* the tree n given to EncodeChildren
  tvals,   \* the slice EncodeChildren returned
  tdec,    \* what DecodeChildren made of the slice in a fresh root
  tvals2,  \* the slice EncodeChildren returned for the decoded tree
  tpc      \* the calls made so far

treeVars == <<troot, tvals, tdec, tvals2, tpc>>

\* the query cache and the calls of QuerySupport
VARIABLES
  qcache,  \* the entries of dr.InstanceCache() under QueryCacheKeyPfx
  qseen,   \* per query string, the first call that returned nil
  qlast,   \* the last call: its arguments and what it returned
  qcalls   \* calls made

queryVars == <<qcache, qseen, qlast, qcalls>>

\* a Gets and a Puts or Deletes of one key running concurrently
VARIABLES
  rpc,  \* the position of the Gets
  wpc,  \* the position of the Puts or Deletes
  rdg,  \* what DatastoreGet returned to the Gets
  wop   \* the call of the writer and the payload it saves

raceVars == <<rpc, wpc, rdg, wop>>

vars == <<dbVars, metaVars, keyVars, ormVars, errVars, genVars, treeVars,
          queryVars, raceVars>>

notDb == <<metaVars, keyVars, ormVars, errVars, genVars, treeVars, queryVars,
           raceVars>>
notMeta == <<dbVars, keyVars, ormVars, errVars, genVars, treeVars, queryVars,
             raceVars>>
notKey == <<dbVars, metaVars, ormVars, errVars, genVars, treeVars, queryVars,
            raceVars>>
notOrm == <<dbVars, metaVars, keyVars, errVars, genVars, treeVars, queryVars,
            raceVars>>
notErr == <<dbVars, metaVars, keyVars, ormVars, genVars, treeVars, queryVars,
            raceVars>>
notGen == <<dbVars, metaVars, keyVars, ormVars, errVars, treeVars, queryVars,
            raceVars>>
notTree == <<dbVars, metaVars, keyVars, ormVars, errVars, genVars, queryVars,
             raceVars>>
notQuery == <<dbVars, metaVars, keyVars, ormVars, errVars, genVars, treeVars,
              raceVars>>
notRace == <<dbVars, metaVars, keyVars, ormVars, errVars, genVars, treeVars,
             queryVars>>

\* the parts of the state that a part of the program under study does not
\* touch stay as they are at the start
DbIdle ==
  /\ tm = [rc |-> FALSE, pc |-> FALSE, mc |-> FALSE, ds |-> FALSE]
  /\ sharedUp = FALSE
  /\ store = [k \in Keys |-> 0]
  /\ reqStore = EmptyStore
  /\ instStore = EmptyStore
  /\ sharedStore = EmptyStore
  /\ heap = [o \in Objs |-> Zero]
  /\ last = [op |-> "Init"]
  /\ prev = [op |-> "Init"]
  /\ log = <<>>
  /\ pre = [rs |-> EmptyStore, is |-> EmptyStore, ss |-> EmptyStore]
  /\ nops = 0
  /\ nfaults = 0

MetaIdle ==
  /\ StructMetas = <<>>
  /\ StructMetaKinds = <<>>
  /\ structMetasMutex = 0
  /\ gsm = <<>>
  /\ ret = <<>>
  /\ parses = <<>>
  /\ ncalls = 0

KeyIdle ==
  /\ ktm = <<>>
  /\ ent = <<>>
  /\ ent2 = <<>>
  /\ kret = <<>>
  /\ seqId = 0

OrmIdle ==
  /\ oent = <<>>
  /\ oprops = <<>>
  /\ osrc = ""
  /\ oout = <<>>

ErrIdle ==
  /\ ierr = Nil
  /\ iret = <<>>

GenIdle ==
  /\ combo = <<>>
  /\ vprops = <<>>
  /\ ictr = 0
  /\ ctr = <<>>
  /\ xerr = Nil
  /\ gout = <<>>

TreeIdle ==
  /\ troot = <<>>
  /\ tvals = <<>>
  /\ tdec = <<>>
  /\ tvals2 = <<>>
  /\ tpc = ""

QueryIdle ==
  /\ qcache = <<>>
  /\ qseen = <<>>
  /\ qlast = <<>>
  /\ qcalls = 0

RaceIdle ==
  /\ rpc = ""
  /\ wpc = ""
  /\ rdg = <<>>
  /\ wop = <<>>

IdleButDb ==
  /\ MetaIdle
  /\ KeyIdle
  /\ OrmIdle
  /\ ErrIdle
  /\ GenIdle
  /\ TreeIdle
  /\ QueryIdle
  /\ RaceIdle
IdleButMeta ==
  /\ DbIdle
  /\ KeyIdle
  /\ OrmIdle
  /\ ErrIdle
  /\ GenIdle
  /\ TreeIdle
  /\ QueryIdle
  /\ RaceIdle
IdleButKey ==
  /\ DbIdle
  /\ MetaIdle
  /\ OrmIdle
  /\ ErrIdle
  /\ GenIdle
  /\ TreeIdle
  /\ QueryIdle
  /\ RaceIdle
IdleButOrm ==
  /\ DbIdle
  /\ MetaIdle
  /\ KeyIdle
  /\ ErrIdle
  /\ GenIdle
  /\ TreeIdle
  /\ QueryIdle
  /\ RaceIdle
IdleButErr ==
  /\ DbIdle
  /\ MetaIdle
  /\ KeyIdle
  /\ OrmIdle
  /\ GenIdle
  /\ TreeIdle
  /\ QueryIdle
  /\ RaceIdle
IdleButGen ==
  /\ DbIdle
  /\ MetaIdle
  /\ KeyIdle
  /\ OrmIdle
  /\ ErrIdle
  /\ TreeIdle
  /\ QueryIdle
  /\ RaceIdle
IdleButTree ==
  /\ DbIdle
  /\ MetaIdle
  /\ KeyIdle
  /\ OrmIdle
  /\ ErrIdle
  /\ GenIdle
  /\ QueryIdle
  /\ RaceIdle
IdleButQuery ==
  /\ DbIdle
  /\ MetaIdle
  /\ KeyIdle
  /\ OrmIdle
  /\ ErrIdle
  /\ GenIdle
  /\ TreeIdle
  /\ RaceIdle
IdleButRace ==
  /\ DbIdle
  /\ MetaIdle
  /\ KeyIdle
  /\ OrmIdle
  /\ ErrIdle
  /\ GenIdle
  /\ TreeIdle
  /\ QueryIdle

----------------------------------------------------------------------------
(* Log of what one call did, in order. *)

Ev(ev, tier, key, arg) == [ev |-> ev, tier |-> tier, key |-> key, arg |-> arg]
\* a probe of a tier for the key at position slot of the keys of a CacheGet
Probe(tier, key, slot, arg) ==
  [ev |-> "probe", tier |-> tier, key |-> key, arg |-> arg, slot |-> slot]

RECURSIVE Cat(_, _, _)
\* f[i] \o f[i+1] \o ... \o f[n]
Cat(f, i, n) == IF i > n THEN <<>> ELSE f[i] \o Cat(f, i + 1, n)

\* the subsequence of i..n (in order) of the indexes h with f[h] true
RECURSIVE SelIdx(_, _, _)
SelIdx(f, i, n) ==
  IF i > n THEN <<>>
  ELSE (IF f[i] THEN <<i>> ELSE <<>>) \o SelIdx(f, i + 1, n)

----------------------------------------------------------------------------
(* Faults a collaborator (backend, shared cache, hook) can raise in a call. *)

NoFault == <<"none", 0>>
Fault(kind, i) == <<kind, i>>

----------------------------------------------------------------------------
(* Tier selection of a type (TypeMeta flags and driver). *)

\* tm.UseInstanceCache || (tm.UseSharedCache && sharedCache == nil)
UseInstance == tm.pc \/ (tm.mc /\ ~sharedUp)
\* tm.UseSharedCache && sharedCache != nil
UseShared == tm.mc /\ sharedUp

----------------------------------------------------------------------------
(* CacheGet *)

\* the entity a hit copies into dst[i] (fnHit)
EntryEntity(hp, entry) == IF entry.t = "ref" THEN hp[entry.o] ELSE entry.e
EntryResult(entry) == IF entry = Negative THEN CacheNeg ELSE CacheHit

\* LocalProbe without its two continue statements: every tier is consulted,
\* whatever an earlier one held
LocalProbeNoContinue(rs, is, k, i) ==
  [entry |-> IF tm.rc /\ rs[Raw(k)] # NoEntry THEN rs[Raw(k)]
             ELSE IF UseInstance THEN is[Pfx(k)] ELSE NoEntry,
   pend |-> UseShared,
   log |-> (IF tm.rc
              THEN <<Probe("rc", k, i,
                           IF rs[Raw(k)] # NoEntry THEN "found" ELSE "none")>>
            ELSE <<>>)
           \o (IF UseInstance
                 THEN <<Probe("pc", k, i,
                              IF is[Pfx(k)] # NoEntry THEN "found" ELSE "none")>>
               ELSE <<>>)]

\* the request-store and instance-cache part of the loop body, for the key k
\* at position i
LocalProbe(rs, is, k, i) ==
  LET rv == rs[Raw(k)]
      iv == is[Pfx(k)]
  IN IF tm.rc /\ rv # NoEntry
       THEN [entry |-> rv, pend |-> FALSE,
             log |-> <<Probe("rc", k, i, "found")>>]
     ELSE LET l1 == IF tm.rc THEN <<Probe("rc", k, i, "none")>> ELSE <<>>
          IN IF UseInstance /\ iv # NoEntry
               THEN [entry |-> iv, pend |-> FALSE,
                     log |-> l1 \o <<Probe("pc", k, i, "found")>>]
             ELSE [entry |-> NoEntry, pend |-> UseShared,
                   log |-> l1 \o (IF UseInstance
                                    THEN <<Probe("pc", k, i, "none")>>
                                    ELSE <<>>)]

\* the shared-cache part: one batched sharedCache.CacheGet for the keys
\* still pending after the loop (loc[i] is what the loop found for keys[i])
CacheGetShared(ss, hp, keys, dst, flt, loc) ==
  LET n == Len(keys)
      \* sharedCache.CacheGet(ctx, mcck...) fails as a whole
      mcErr == (\E i \in 1..n : loc[i].pend) /\ flt = Fault("mcGet", 0)
      found == [i \in 1..n |->
                  IF loc[i].entry # NoEntry THEN loc[i].entry
                  ELSE IF loc[i].pend /\ ~mcErr THEN ss[Pfx(keys[i])]
                  ELSE NoEntry]
      mclog == [i \in 1..n |->
                  IF loc[i].pend
                    THEN <<Probe("mc", keys[i], i,
                              IF mcErr THEN "error"
                              ELSE IF ss[Pfx(keys[i])] # NoEntry THEN "found"
                              ELSE "none")>>
                  ELSE <<>>]
  IN [result |-> [i \in 1..n |-> IF found[i] = NoEntry THEN CacheMiss
                                 ELSE EntryResult(found[i])],
      dst |-> [i \in 1..n |-> IF found[i] \notin {NoEntry, Negative}
                                THEN EntryEntity(hp, found[i]) ELSE dst[i]],
      err |-> OnErrorf(IF mcErr THEN Other("sharedCache.CacheGet") ELSE Nil),
      log |-> Cat([i \in 1..n |-> loc[i].log], 1, n) \o Cat(mclog, 1, n)]

CacheGet(rs, is, ss, hp, keys, dst, flt) ==
  CacheGetShared(ss, hp, keys, dst, flt,
                 [i \in Idx(keys) |-> LocalProbe(rs, is, keys[i], i)])

----------------------------------------------------------------------------
(* CachePut *)

RefsOf(st) == {st[ck].o : ck \in {c \in CacheKeys : st[c].t = "ref"}}

\* the object that holds dst[i]: the lowest one no other slot points to
\* (the slots of k that this put overwrites do not count)
NewObj(rs, is, k) ==
  LET rs2 == IF tm.rc THEN [rs EXCEPT ![Raw(k)] = NoEntry] ELSE rs
      is2 == IF UseInstance THEN [is EXCEPT ![Pfx(k)] = NoEntry] ELSE is
      used == RefsOf(rs2) \cup RefsOf(is2)
  IN CHOOSE o \in Objs : o \notin used /\ \A p \in Objs : p < o => p \in used

\* the key under which CachePut stores into the instance cache (enckey2)
InstancePutKey(k) == Pfx(k)

\* the loop over dst: vals[i] is an entity, or FalseVal (a negative)
RECURSIVE CachePutLoop(_, _, _, _, _, _)
CachePutLoop(rs, is, hp, keys, vals, i) ==
  IF i > Len(keys) THEN [rs |-> rs, is |-> is, hp |-> hp, log |-> <<>>]
  ELSE
    LET k == keys[i]
        neg == vals[i] = FalseVal
        local == tm.rc \/ UseInstance
        o == NewObj(rs, is, k)
        entry == IF neg THEN Negative ELSE Ref(o)
        rs2 == IF tm.rc THEN [rs EXCEPT ![Raw(k)] = entry] ELSE rs
        is2 == IF UseInstance THEN [is EXCEPT ![InstancePutKey(k)] = entry]
               ELSE is
        hp2 == IF local /\ ~neg THEN [hp EXCEPT ![o] = vals[i]] ELSE hp
        what == IF neg THEN "neg" ELSE "pos"
        lg == (IF tm.rc THEN <<Ev("put", "rc", k, what)>> ELSE <<>>)
              \o (IF UseInstance THEN <<Ev("put", "pc", k, what)>> ELSE <<>>)
        rest == CachePutLoop(rs2, is2, hp2, keys, vals, i + 1)
    IN [rest EXCEPT !.log = lg \o rest.log]

RECURSIVE SharedPuts(_, _, _, _)
SharedPuts(ss, keys, vals, i) ==
  IF i > Len(keys) THEN ss
  ELSE SharedPuts([ss EXCEPT ![Pfx(keys[i])] =
                      IF vals[i] = FalseVal THEN Negative ELSE Ser(vals[i])],
                  keys, vals, i + 1)

\* the batched sharedCache.CachePut after the loop (lp: what the loop left)
CachePutShared(ss, keys, vals, flt, lp) ==
  LET n == Len(keys)
      toShared == UseShared /\ n > 0
      \* sharedCache.CachePut(ctx, mcitems...) fails as a whole
      mcErr == toShared /\ flt = Fault("mcPut", 0)
      mclog == [i \in 1..n |->
                  <<Ev("put", "mc", keys[i],
                       IF mcErr THEN "error"
                       ELSE IF vals[i] = FalseVal THEN "neg" ELSE "pos")>>]
  IN [rs |-> lp.rs, is |-> lp.is, hp |-> lp.hp,
      ss |-> IF toShared /\ ~mcErr THEN SharedPuts(ss, keys, vals, 1) ELSE ss,
      err |-> OnErrorf(IF mcErr THEN Other("sharedCache.CachePut") ELSE Nil),
      log |-> lp.log \o (IF toShared THEN Cat(mclog, 1, n) ELSE <<>>)]

CachePut(rs, is, ss, hp, keys, vals, flt) ==
  CachePutShared(ss, keys, vals, flt, CachePutLoop(rs, is, hp, keys, vals, 1))

----------------------------------------------------------------------------
(* CacheDelete *)

\* the key under which CacheDelete removes from the instance cache (mcs0)
InstanceDeleteKey(k) == Raw(k)

RECURSIVE Removes(_, _, _)
\* safestore Removes over the cache keys cks
Removes(st, cks, i) ==
  IF i > Len(cks) THEN st
  ELSE Removes([st EXCEPT ![cks[i]] = NoEntry], cks, i + 1)

CacheDelete(rs, is, ss, keys, flt) ==
  LET n == Len(keys)
      mcs0 == [i \in 1..n |-> Raw(keys[i])]
      mcsI == [i \in 1..n |-> InstanceDeleteKey(keys[i])]
      mcs == [i \in 1..n |-> Pfx(keys[i])]
      \* sharedCache.CacheDelete(ctx, mcs...) fails as a whole
      mcErr == sharedUp /\ flt = Fault("mcDel", 0)
  IN [rs |-> Removes(rs, mcs0, 1),
      is |-> Removes(is, mcsI, 1),
      ss |-> IF sharedUp /\ ~mcErr THEN Removes(ss, mcs, 1) ELSE ss,
      err |-> OnErrorf(IF mcErr THEN Other("sharedCache.CacheDelete") ELSE Nil),
      log |-> Cat([i \in 1..n |-> <<Ev("del", "rc", keys[i], mcs0[i][1])>>], 1, n)
              \o Cat([i \in 1..n |-> <<Ev("del", "pc", keys[i], mcsI[i][1])>>], 1, n)
              \o (IF sharedUp
                    THEN Cat([i \in 1..n |->
                                <<Ev("del", "mc", keys[i],
                                     IF mcErr THEN "error" ELSE mcs[i][1])>>], 1, n)
                    ELSE <<>>)]

----------------------------------------------------------------------------
(* The backend driver (app.LowLevelDriver): a collaborator.  The datastore *)
(* maps each key to the payload stored under it, 0 when there is none.     *)

DatastoreGet(st, dkeys, flt) ==
  LET n == Len(dkeys)
      errs == [j \in 1..n |->
                 IF flt = Fault("dsIdx", j) THEN Other("DatastoreGet")
                 ELSE IF st[dkeys[j]] = 0 THEN NotFound("backend")
                 ELSE Nil]
  IN IF flt = Fault("dsGet", 0)
       THEN [err |-> Other("DatastoreGet"), vals |-> [j \in 1..n |-> 0]]
     ELSE [err |-> IF HasError(errs) THEN Multi(errs) ELSE Nil,
           vals |-> [j \in 1..n |-> IF errs[j] = Nil THEN st[dkeys[j]] ELSE 0]]

RECURSIVE StorePuts(_, _, _, _)
StorePuts(st, keys, vals, i) ==
  IF i > Len(keys) THEN st
  ELSE StorePuts([st EXCEPT ![keys[i]] = vals[i]], keys, vals, i + 1)

\* alloc[j] is the id the backend gives to an incomplete key (id 0) at j
DatastorePut(st, dkeys, ddst, alloc, flt) ==
  LET n == Len(dkeys)
      keys2 == [j \in 1..n |-> IF dkeys[j] = 0 THEN alloc[j] ELSE dkeys[j]]
  IN IF flt = Fault("dsPut", 0)
       THEN [err |-> Other("DatastorePut"), keys |-> <<>>, st |-> st]
     ELSE [err |-> Nil, keys |-> keys2,
           st |-> StorePuts(st, keys2, [j \in 1..n |-> ddst[j].val], 1)]

DatastoreDelete(st, keys, flt) ==
  IF flt = Fault("dsDel", 0)
    THEN [err |-> Other("DatastoreDelete"), st |-> st]
  ELSE [err |-> Nil,
        st |-> StorePuts(st, keys, [j \in Idx(keys) |-> 0], 1)]

----------------------------------------------------------------------------
(* PostLoad, PreSave, PostSave *)

\* the index (0: none) at which the hook named kind fails, among n entities
BadIdx(flt, kind, n) == IF flt[1] = kind /\ flt[2] \in 1..n THEN flt[2] ELSE 0

\* PostLoadNoCaching on each entity in turn (FromDatastoreKey, then
\* PostLoadHook), stopping at the first error
PostLoadNoCaching(keys, dst, flt) ==
  LET n == Len(keys)
      bad == BadIdx(flt, "loadHook", n)
      upto == IF bad = 0 THEN n ELSE bad
  IN [bad |-> bad,
      dst |-> [i \in 1..n |-> IF i <= upto THEN [dst[i] EXCEPT !.id = keys[i]]
                              ELSE dst[i]],
      log |-> Cat([i \in 1..upto |->
                     <<Ev("keyapply", "", keys[i], "ok"),
                       Ev("postload", "", keys[i],
                          IF i = bad THEN "error" ELSE "ok")>>], 1, upto)]

PostLoadCaching(rs, is, ss, hp, useCache, nc, cp) ==
  IF nc.bad # 0
    THEN [rs |-> rs, is |-> is, ss |-> ss, hp |-> hp, dst |-> nc.dst,
          err |-> OnErrorf(OnErrorf(Other("PostLoadHook"))), log |-> nc.log]
  ELSE IF useCache
    THEN [rs |-> cp.rs, is |-> cp.is, ss |-> cp.ss, hp |-> cp.hp,
          dst |-> nc.dst, err |-> OnErrorf(cp.err), log |-> nc.log \o cp.log]
  ELSE [rs |-> rs, is |-> is, ss |-> ss, hp |-> hp, dst |-> nc.dst,
        err |-> Nil, log |-> nc.log]

PostLoadPut(rs, is, ss, hp, useCache, keys, flt, nc) ==
  PostLoadCaching(rs, is, ss, hp, useCache, nc,
                  CachePut(rs, is, ss, hp, keys, nc.dst, flt))

PostLoad(rs, is, ss, hp, useCache, keys, dst, flt) ==
  PostLoadPut(rs, is, ss, hp, useCache, keys, flt,
              PostLoadNoCaching(keys, dst, flt))

PreSave(keys, flt) ==
  LET n == Len(keys)
      bad == BadIdx(flt, "preHook", n)
      upto == IF bad = 0 THEN n ELSE bad
  IN [err |-> OnErrorf(IF bad # 0 THEN Other("PreSaveHook") ELSE Nil),
      log |-> Cat([i \in 1..upto |->
                     <<Ev("presave", "", keys[i],
                          IF i = bad THEN "error" ELSE "ok")>>], 1, upto)]

\* the loop of PostSave: FromDatastoreKey writes the id of the key into the
\* key field, then PostSaveHook; the first error returns
PostSaveHooks(keys, dst, flt) ==
  LET n == Len(keys)
      bad == BadIdx(flt, "saveHook", n)
      upto == IF bad = 0 THEN n ELSE bad
  IN [bad |-> bad,
      dst |-> [i \in 1..n |-> IF i <= upto THEN [dst[i] EXCEPT !.id = keys[i]]
                              ELSE dst[i]],
      log |-> Cat([i \in 1..upto |->
                     <<Ev("keyapply", "", keys[i], "ok"),
                       Ev("postsave", "", keys[i],
                          IF i = bad THEN "error" ELSE "ok")>>], 1, upto)]

\* PostSaveDelete without the CacheDelete
PostSaveNoDelete(rs, is, ss, hk, cd) ==
  [rs |-> rs, is |-> is, ss |-> ss, dst |-> hk.dst,
   err |-> OnErrorf(IF hk.bad # 0 THEN Other("PostSaveHook") ELSE Nil),
   log |-> hk.log]

\* "After a Save, always remove from the caches" (cd: what CacheDelete did)
PostSaveDelete(rs, is, ss, hk, cd) ==
  IF hk.bad # 0
    THEN [rs |-> rs, is |-> is, ss |-> ss, dst |-> hk.dst,
          err |-> OnErrorf(Other("PostSaveHook")), log |-> hk.log]
  ELSE [rs |-> cd.rs, is |-> cd.is, ss |-> cd.ss, dst |-> hk.dst,
        err |-> OnErrorf(cd.err), log |-> hk.log \o cd.log]

PostSave(rs, is, ss, keys, dst, flt) ==
  PostSaveDelete(rs, is, ss, PostSaveHooks(keys, dst, flt),
                 CacheDelete(rs, is, ss, keys, flt))

----------------------------------------------------------------------------
(* Gets *)

\* first index j of keys with keys[j] = k (the loop with break at 1703..1711)
FirstMatch(keys, k) ==
  CHOOSE j \in Idx(keys) : keys[j] = k /\ \A h \in 1..(j - 1) : keys[h] # k

\* the slots of merr that the loop over the backend's errors sets for the
\* not-found key at position i of dkeys
MerrSlots(keys, dkeys, i) == {FirstMatch(keys, dkeys[i])}

\* the positions of dkeys whose key and entity go on to PostLoad
\* (dkeyspass, dstpass): all of them when DatastoreGet returned nil, and the
\* two fresh empty slices when it returned a Multi
DsPass(dkeys, errds) ==
  IF errds = Nil THEN [j \in Idx(dkeys) |-> j] ELSE <<>>

\* the keys that missed the caches and are not sent to the backend because
\* the type does not use the datastore: recorded as misses (line 1682)
CacheOnlyMisses(keys, noDs) == [j \in Idx(noDs) |-> keys[noDs[j]]]

\* Gets is modelled in the order of its code, one stage per operator.  c is
\* the call (its arguments and the stores it runs on), cg what CacheGet
\* returned, b what the backend returned.

\* return: what the caller gets, and the stores as the call leaves them
GetsReturn(c, cg, b, r, d, e, lg) ==
  [rs |-> r.rs, is |-> r.is, ss |-> r.ss, hp |-> r.hp, log |-> lg,
   res |-> [op |-> "Gets", useCache |-> c.useCache, keys |-> c.keys,
            cres |-> cg.result, dst |-> d, err |-> OnErrorf(e),
            dsCalled |-> b.called, dsKeys |-> b.dkeys, dsErr |-> b.errds]]

\* "Total Misses = cache negatives + datastore misses" (1745..1751)
MerrOrNil(merr) == IF HasError(merr) THEN Multi(merr) ELSE Nil

\* q: what the CachePut of the negatives returned (1736..1738)
GetsAfterNegatives(c, cg, b, d, merr, lg, q) ==
  GetsReturn(c, cg, b, q, d,
             IF q.err # Nil THEN q.err ELSE MerrOrNil(merr), lg \o q.log)

\* GetsNegatives without the CachePut of the negatives
GetsNoNegatives(c, cg, b, r, d, merr, dkeymisses, lg) ==
  GetsReturn(c, cg, b, r, d, MerrOrNil(merr), lg)

\* "store all misses as negatives in the cache" (1728..1740); r: the stores
\* at this point
GetsNegatives(c, cg, b, r, d, merr, dkeymisses, lg) ==
  IF c.useCache /\ Len(dkeymisses) > 0
    THEN GetsAfterNegatives(c, cg, b, d, merr, lg,
                            CachePut(r.rs, r.is, r.ss, r.hp, dkeymisses,
                                     [j \in Idx(dkeymisses) |-> FalseVal],
                                     c.flt))
  ELSE GetsReturn(c, cg, b, r, d, MerrOrNil(merr), lg)

\* dst as the caller sees it once PostLoad (pl) has run on the entities at
\* the positions pass of dkeys
WithLoaded(b, pass, dst1, pl) ==
  [i \in Idx(dst1) |->
     IF \E j \in Idx(pass) : b.dIdx[pass[j]] = i
       THEN pl.dst[CHOOSE j \in Idx(pass) : b.dIdx[pass[j]] = i]
     ELSE dst1[i]]

\* GetsAfterBackend without the two returns on an error of the backend
GetsAfterBackendNoAbort(c, cg, b, abort, merr, dkeymisses, dst1, pass, lg, pl) ==
  IF ~b.called
    THEN GetsNegatives(c, cg, b, c, dst1, merr, dkeymisses, lg)
  ELSE GetsNegatives(c, cg, b, pl, WithLoaded(b, pass, dst1, pl), merr,
                     dkeymisses, lg \o pl.log)

\* 1693..1726: abort on an error that is not a miss, else PostLoad (pl)
GetsAfterBackend(c, cg, b, abort, merr, dkeymisses, dst1, pass, lg, pl) ==
  IF ~b.called
    THEN GetsNegatives(c, cg, b, c, dst1, merr, dkeymisses, lg)
  ELSE IF abort # Nil
    THEN GetsReturn(c, cg, b, c, dst1, abort, lg)
  ELSE IF pl.err # Nil
    THEN GetsReturn(c, cg, b, pl, WithLoaded(b, pass, dst1, pl), pl.err,
                    lg \o pl.log)
  ELSE GetsNegatives(c, cg, b, pl, WithLoaded(b, pass, dst1, pl), merr,
                     dkeymisses, lg \o pl.log)

\* the error Gets returns without going on: the backend's own error when it
\* is not a Multi, a new one when an element of the Multi is not a miss
Abort(b, badAt) ==
  IF b.errds = Nil THEN Nil
  ELSE IF b.isMulti
    THEN (IF Len(badAt) > 0
            THEN Errorf("Error at index: %v: %v, from MultiError: %v",
                        <<badAt[1], b.errs[badAt[1]], b.errds>>)
          ELSE Nil)
  ELSE b.errds

\* merr: the negatives of the cache (1669..1670), then the misses of the
\* backend (1703..1711)
Merr(c, cg, b, missAt) ==
  [h \in Idx(c.keys) |->
     IF \E j \in Idx(missAt) : h \in MerrSlots(c.keys, b.dkeys, missAt[j])
       THEN b.errs[missAt[CHOOSE j \in Idx(missAt) :
                            h \in MerrSlots(c.keys, b.dkeys, missAt[j])]]
     ELSE IF c.useCache /\ cg.result[h] = CacheNeg THEN NotFound("cache")
     ELSE Nil]

DsLog(b, missAt) ==
  [j \in Idx(b.dkeys) |->
     Ev("dsget", "ds", b.dkeys[j],
        IF b.isMulti
          THEN (IF b.errs[j] = Nil THEN "ok"
                ELSE IF \E h \in Idx(missAt) : missAt[h] = j THEN "notfound"
                ELSE "error")
        ELSE IF b.errds = Nil THEN "ok" ELSE "error")]

GetsLoad(c, cg, b, miss0, missAt, badAt, dst1, pass) ==
  GetsAfterBackend(c, cg, b, Abort(b, badAt), Merr(c, cg, b, missAt),
                   miss0 \o [j \in Idx(missAt) |-> b.dkeys[missAt[j]]],
                   dst1, pass, cg.log \o DsLog(b, missAt),
                   PostLoad(c.rs, c.is, c.ss, c.hp, c.useCache,
                            [j \in Idx(pass) |-> b.dkeys[pass[j]]],
                            [j \in Idx(pass) |-> dst1[b.dIdx[pass[j]]]],
                            c.flt))

\* GetsClassify taking every error of the backend for a miss
GetsClassifyAnyError(c, cg, b, miss0) ==
  LET IsMiss == [j \in Idx(b.dkeys) |-> b.errs[j] # Nil]
      IsBad == [j \in Idx(b.dkeys) |-> FALSE]
  IN GetsLoad(c, cg, b, miss0,
              SelIdx(IsMiss, 1, Len(b.dkeys)), SelIdx(IsBad, 1, Len(b.dkeys)),
              [i \in Idx(c.keys) |->
                 IF \E j \in Idx(b.dIdx) : b.dIdx[j] = i /\ b.vals[j] # 0
                   THEN [cg.dst[i] EXCEPT !.val =
                           b.vals[CHOOSE j \in Idx(b.dIdx) : b.dIdx[j] = i]]
                 ELSE cg.dst[i]],
              DsPass(b.dkeys, b.errds))

\* the loop over the errors of the backend (1698..1718)
GetsClassify(c, cg, b, miss0) ==
  LET IsMiss == [j \in Idx(b.dkeys) |->
                   b.errs[j] # Nil /\ IsNotFoundError(b.errs[j])]
      IsBad == [j \in Idx(b.dkeys) |->
                  b.errs[j] # Nil /\ ~IsNotFoundError(b.errs[j])]
  IN GetsLoad(c, cg, b, miss0,
              SelIdx(IsMiss, 1, Len(b.dkeys)), SelIdx(IsBad, 1, Len(b.dkeys)),
              \* dst as DatastoreGet leaves it
              [i \in Idx(c.keys) |->
                 IF \E j \in Idx(b.dIdx) : b.dIdx[j] = i /\ b.vals[j] # 0
                   THEN [cg.dst[i] EXCEPT !.val =
                           b.vals[CHOOSE j \in Idx(b.dIdx) : b.dIdx[j] = i]]
                 ELSE cg.dst[i]],
              DsPass(b.dkeys, b.errds))

\* what the backend did for the keys dkeys (positions dIdx of keys); with no
\* key to load it is not called
Backend(dIdx, dkeys, errds, dg) ==
  [dIdx |-> dIdx, dkeys |-> dkeys, called |-> Len(dkeys) > 0, errds |-> errds,
   isMulti |-> Base(errds).k = "multi",
   errs |-> IF Base(errds).k = "multi" THEN Base(errds).errs
            ELSE [j \in Idx(dkeys) |-> Nil],
   vals |-> IF Len(dkeys) > 0 THEN dg.vals ELSE <<>>]

GetsDatastore(c, cg, dIdx, dkeys, miss0, dg) ==
  GetsClassify(c, cg,
               Backend(dIdx, dkeys, IF Len(dkeys) > 0 THEN dg.err ELSE Nil, dg),
               miss0)

\* the split of the keys by what CacheGet found (1667..1685)
GetsSplit(c, cg, dIdx, noDs) ==
  GetsDatastore(c, cg, dIdx, [j \in Idx(dIdx) |-> c.keys[dIdx[j]]],
                CacheOnlyMisses(c.keys, noDs),
                DatastoreGet(c.st, [j \in Idx(dIdx) |-> c.keys[dIdx[j]]],
                             c.flt))

GetsCached(c, cg) ==
  LET ToDs == [i \in Idx(c.keys) |->
                 ~c.useCache \/ (cg.result[i] = CacheMiss /\ tm.ds)]
      NoDs == [i \in Idx(c.keys) |->
                 c.useCache /\ cg.result[i] = CacheMiss /\ ~tm.ds]
  IN GetsSplit(c, cg, SelIdx(ToDs, 1, Len(c.keys)),
               SelIdx(NoDs, 1, Len(c.keys)))

Gets(rs, is, ss, hp, st, useCache, keys, flt) ==
  GetsCached([rs |-> rs, is |-> is, ss |-> ss, hp |-> hp, st |-> st,
              useCache |-> useCache, keys |-> keys, flt |-> flt],
             IF useCache
               THEN CacheGet(rs, is, ss, hp, keys, [i \in Idx(keys) |-> Zero],
                             flt)
             ELSE [result |-> [i \in Idx(keys) |-> CacheMiss],
                   dst |-> [i \in Idx(keys) |-> Zero],
                   err |-> Nil, log |-> <<>>])

\* Get: Gets on the one key; a Multi that comes back is replaced by its first
\* element (the assertion err.(zerror.Multi) looks at the value Gets returned,
\* wrapped as it is), and the error is wrapped on the way out
GetFirst(err) == IF err.k = "multi" THEN err.errs[1] ELSE err

GetReturn(r) ==
  [r EXCEPT !.res.op = "Get", !.res.err = OnErrorf(GetFirst(@))]

Get(rs, is, ss, hp, st, useCache, key, flt) ==
  GetReturn(Gets(rs, is, ss, hp, st, useCache, <<key>>, flt))

----------------------------------------------------------------------------
(* Puts, Deletes, Save *)

\* ents[i] is the entity saved under keys[i]; a key 0 is incomplete and gets
\* its id from the backend (alloc)
PutsReturn(c, r, st2, e, k2, d, ok, lg) ==
  [rs |-> r.rs, is |-> r.is, ss |-> r.ss, st |-> st2, log |-> lg,
   res |-> [op |-> "Puts", keys |-> c.keys, ents |-> c.ents, err |-> OnErrorf(e),
            dsPutOk |-> ok, written |-> k2, dst |-> d]]

\* 1789..1796: dp is what DatastorePut returned, ps what PostSave did
PutsAfterPut(c, dIdx, lg, dp, ps) ==
  IF dp.err # Nil
    THEN PutsReturn(c, c, c.st, dp.err, <<>>, c.ents, FALSE, lg)
  ELSE PutsReturn(c, ps, dp.st, ps.err, dp.keys,
                  [i \in Idx(c.keys) |->
                     IF \E j \in Idx(dIdx) : dIdx[j] = i
                       THEN ps.dst[CHOOSE j \in Idx(dIdx) : dIdx[j] = i]
                     ELSE c.ents[i]],
                  TRUE, lg \o ps.log)

PutsPostSave(c, dIdx, ddst, lg, dp) ==
  PutsAfterPut(c, dIdx,
               lg \o <<Ev("dsput", "ds", 0,
                          IF dp.err = Nil THEN "ok" ELSE "error")>>,
               dp, PostSave(c.rs, c.is, c.ss, dp.keys, ddst, c.flt))

\* mutation: the error of PreSave and of OrmFromIntf is not looked at
PutsDatastoreWhatever(c, psv, dIdx, dkeys, ddst, ormBad) ==
  PutsPostSave(c, dIdx, ddst,
               psv.log \o [j \in Idx(ddst) |-> Ev("orm", "", dkeys[j], "ok")],
               DatastorePut(c.st, dkeys, ddst,
                            [j \in Idx(dIdx) |-> c.alloc[dIdx[j]]], c.flt))

\* 1777..1789: OrmFromIntf of each entity, then DatastorePut
PutsDatastore(c, psv, dIdx, dkeys, ddst, ormBad) ==
  IF psv.err # Nil
    THEN PutsReturn(c, c, c.st, psv.err, <<>>, c.ents, FALSE, psv.log)
  ELSE IF ormBad # 0
    THEN PutsReturn(c, c, c.st, OnErrorf(Other("OrmFromIntf")), <<>>, c.ents,
                    FALSE,
                    psv.log \o [j \in 1..ormBad |->
                                  Ev("orm", "", dkeys[j],
                                     IF j = ormBad THEN "error" ELSE "ok")])
  ELSE PutsPostSave(c, dIdx, ddst,
                    psv.log \o [j \in Idx(ddst) |-> Ev("orm", "", dkeys[j], "ok")],
                    DatastorePut(c.st, dkeys, ddst,
                                 [j \in Idx(dIdx) |-> c.alloc[dIdx[j]]], c.flt))

\* 1763..1775: "find subset which are datastore enabled"
PutsSubset(c, psv, dIdx) ==
  PutsDatastore(c, psv, dIdx, [j \in Idx(dIdx) |-> c.keys[dIdx[j]]],
                [j \in Idx(dIdx) |-> c.ents[dIdx[j]]],
                BadIdx(c.flt, "orm", Len(dIdx)))

\* ents[i] is the entity saved under keys[i]; a key 0 is incomplete and gets
\* its id from the backend (alloc)
Puts(rs, is, ss, st, keys, ents, alloc, flt) ==
  PutsSubset([rs |-> rs, is |-> is, ss |-> ss, st |-> st,
              keys |-> keys, ents |-> ents, alloc |-> alloc, flt |-> flt],
             PreSave(keys, flt),
             IF tm.ds THEN [j \in Idx(keys) |-> j] ELSE <<>>)

\* Save: the key of each entity (DatastoreKey; the id field of the entity,
\* incomplete when 0), then Puts; its error is wrapped once more
SaveReturn(r) == [r EXCEPT !.res.op = "Save", !.res.err = OnErrorf(@)]

Save(rs, is, ss, st, ents, alloc, flt) ==
  SaveReturn(Puts(rs, is, ss, st, [i \in Idx(ents) |-> ents[i].id], ents,
                  alloc, flt))

DeletesReturn(keys, r, st2, e, ok, lg) ==
  [rs |-> r.rs, is |-> r.is, ss |-> r.ss, st |-> st2, log |-> lg,
   res |-> [op |-> "Deletes", keys |-> keys, err |-> OnErrorf(e),
            dsDelOk |-> ok]]

DeletesCache(c, dd, cd) ==
  IF dd.err # Nil
    THEN DeletesReturn(c.keys, c, c.st, dd.err, FALSE,
                       <<Ev("dsdel", "ds", 0, "error")>>)
  ELSE DeletesReturn(c.keys, cd, dd.st, cd.err, TRUE,
                     <<Ev("dsdel", "ds", 0, "ok")>> \o cd.log)

Deletes(rs, is, ss, st, keys, flt) ==
  DeletesCache([rs |-> rs, is |-> is, ss |-> ss, st |-> st, keys |-> keys],
               DatastoreDelete(st, keys, flt),
               CacheDelete(rs, is, ss, keys, flt))

----------------------------------------------------------------------------
(* Load, LoadOne *)

\* Load: the key of each entity (its id field, incomplete when 0), then Gets;
\* the error is wrapped once more on the way out
LoadIncomplete(rs, is, ss, hp, ents) ==
  [rs |-> rs, is |-> is, ss |-> ss, hp |-> hp, log |-> <<>>,
   res |-> [op |-> "Load", dst |-> ents, dsCalled |-> FALSE,
            err |-> OnErrorf(Errorf("not yet in datastore", ents))]]

LoadReturn(r) == [r EXCEPT !.res.op = "Load", !.res.err = OnErrorf(@)]

Load(rs, is, ss, hp, st, useCache, ents, flt) ==
  IF \E i \in Idx(ents) : ents[i].id = 0
    THEN LoadIncomplete(rs, is, ss, hp, ents)
  ELSE LoadReturn(Gets(rs, is, ss, hp, st, useCache,
                       [i \in Idx(ents) |-> ents[i].id], flt))

\* what LoadOne returns: l is what Load returned, r the stores and the error
\* LoadOne ends with
LoadOneReturn(maybeCreate, entity, l, r, st2, saved, lg) ==
  [rs |-> r.rs, is |-> r.is, ss |-> r.ss, hp |-> l.hp, st |-> st2, log |-> lg,
   res |-> [op |-> "LoadOne", maybeCreate |-> maybeCreate, entity |-> entity,
            loadErr |-> l.res.err, dsCalled |-> l.res.dsCalled,
            saved |-> saved, err |-> OnErrorf(r.res.err)]]

LoadOneSave(maybeCreate, entity, st, l, sv) ==
  LoadOneReturn(maybeCreate, entity, l, sv, sv.st, TRUE, l.log \o sv.log)

\* the useCache argument is not read: Load gets maybeCreate in its place
LoadOne(rs, is, ss, hp, st, useCache, maybeCreate, entity, alloc, flt) ==
  LET l == Load(rs, is, ss, hp, st, maybeCreate, <<entity>>, flt)
  IN IF maybeCreate /\ IsNotFoundError(l.res.err)
       THEN LoadOneSave(maybeCreate, entity, st, l,
                        Save(l.rs, l.is, l.ss, st, <<entity>>, alloc, flt))
     ELSE LoadOneReturn(maybeCreate, entity, l, l, st, FALSE, l.log)

----------------------------------------------------------------------------
(* The state machine: one application serving one request at a time. *)

TypeMetas == [rc : BOOLEAN, pc : BOOLEAN, mc : BOOLEAN, ds : BOOLEAN]

\* entity objects no store points to any more are dropped
Gc(rs, is, hp) ==
  [o \in Objs |-> IF o \in RefsOf(rs) \cup RefsOf(is) THEN hp[o] ELSE Zero]

Stores == [rs |-> reqStore, is |-> instStore, ss |-> sharedStore]

Init ==
  /\ tm \in TypeMetas
  /\ sharedUp \in BOOLEAN
  /\ store = [k \in Keys |-> IF k = 1 THEN 1 ELSE 0]
  /\ reqStore = EmptyStore
  /\ instStore = EmptyStore
  /\ sharedStore = EmptyStore
  /\ heap = [o \in Objs |-> Zero]
  /\ last = [op |-> "Init"]
  /\ prev = [op |-> "Init"]
  /\ log = <<>>
  /\ pre = [rs |-> EmptyStore, is |-> EmptyStore, ss |-> EmptyStore]
  /\ nops = 0
  /\ nfaults = 0
  /\ IdleButDb

GetsFaults(n) ==
  {NoFault, Fault("mcGet", 0), Fault("dsGet", 0), Fault("mcPut", 0)}
    \cup {Fault("dsIdx", j) : j \in 1..n}
    \cup {Fault("loadHook", j) : j \in 1..n}

PutsFaults(n) ==
  {NoFault, Fault("dsPut", 0), Fault("mcDel", 0)}
    \cup {Fault("preHook", j) : j \in 1..n}
    \cup {Fault("orm", j) : j \in 1..n}
    \cup {Fault("saveHook", j) : j \in 1..n}

DeletesFaults == {NoFault, Fault("dsDel", 0), Fault("mcDel", 0)}

\* r is what the call returns under fault flt, r0 what it returns without:
\* a fault that changes nothing was not raised
Step(r, r0, flt, max) ==
  /\ nops < max
  /\ flt # NoFault => nfaults < MaxFaults /\ r # r0
  /\ nfaults' = IF flt = NoFault THEN nfaults ELSE nfaults + 1
  /\ reqStore' = r.rs
  /\ instStore' = r.is
  /\ sharedStore' = r.ss
  /\ last' = r.res
  /\ log' = r.log
  /\ pre' = Stores
  /\ prev' = last
  /\ nops' = nops + 1
  /\ UNCHANGED <<tm, sharedUp>>
  /\ UNCHANGED notDb

StepRead(r, r0, flt, max) ==
  /\ Step(r, r0, flt, max)
  /\ heap' = Gc(r.rs, r.is, r.hp)
  /\ UNCHANGED store

StepWrite(r, r0, flt, max) ==
  /\ Step(r, r0, flt, max)
  /\ heap' = Gc(r.rs, r.is, heap)
  /\ store' = r.st

\* a read that may write
StepLoad(r, r0, flt, max) ==
  /\ Step(r, r0, flt, max)
  /\ heap' = Gc(r.rs, r.is, r.hp)
  /\ store' = r.st

DoGets(B, max) ==
  \E useCache \in BOOLEAN, keys \in B :
    \E flt \in GetsFaults(Len(keys)) :
      StepRead(Gets(reqStore, instStore, sharedStore, heap, store,
                    useCache, keys, flt),
               Gets(reqStore, instStore, sharedStore, heap, store,
                    useCache, keys, NoFault), flt, max)

DoGet(max) ==
  \E useCache \in BOOLEAN, key \in Keys :
    \E flt \in GetsFaults(1) :
      StepRead(Get(reqStore, instStore, sharedStore, heap, store,
                   useCache, key, flt),
               Get(reqStore, instStore, sharedStore, heap, store,
                   useCache, key, NoFault), flt, max)

\* Save(ctx, entities...).  An entity with id 0 is new: its key is incomplete
\* and the backend assigns an unused id (alloc).  Put(ctx, key, entity) is
\* the same call with the key given.
DoSave(B, max) ==
  \E ids \in B \cup [1..1 -> {0}] :
    \E vals \in [Idx(ids) -> Vals], alloc \in [Idx(ids) -> Keys] :
      \E flt \in PutsFaults(Len(ids)) :
        /\ \A i \in Idx(ids) :
             IF ids[i] = 0 THEN store[alloc[i]] = 0 ELSE alloc[i] = ids[i]
        /\ StepWrite(Save(reqStore, instStore, sharedStore, store,
                          [i \in Idx(ids) |-> Entity(ids[i], vals[i])],
                          alloc, flt),
                     Save(reqStore, instStore, sharedStore, store,
                          [i \in Idx(ids) |-> Entity(ids[i], vals[i])],
                          alloc, NoFault), flt, max)

DoDeletes(B, max) ==
  \E keys \in B, flt \in DeletesFaults :
    StepWrite(Deletes(reqStore, instStore, sharedStore, store, keys, flt),
              Deletes(reqStore, instStore, sharedStore, store, keys, NoFault),
              flt, max)

LoadOneFaults == GetsFaults(1) \cup PutsFaults(1)

\* LoadOne(ctx, useCache, maybeCreate, entity): the entity carries its key
\* (id; 0 when it has none yet) and the payload a Save would write
DoLoadOne(max) ==
  \E useCache \in BOOLEAN, maybeCreate \in BOOLEAN, id \in Keys \cup {0} :
    \E val \in Vals, alloc \in [1..1 -> Keys], flt \in LoadOneFaults :
      /\ alloc[1] = id \/ (id = 0 /\ store[alloc[1]] = 0)
      /\ StepLoad(LoadOne(reqStore, instStore, sharedStore, heap, store,
                          useCache, maybeCreate, Entity(id, val), alloc, flt),
                  LoadOne(reqStore, instStore, sharedStore, heap, store,
                          useCache, maybeCreate, Entity(id, val), alloc,
                          NoFault), flt, max)

\* the next request: dr.NewContext gives it a context with its own store
NewContext(max) ==
  /\ nops < max
  /\ reqStore # EmptyStore
  /\ reqStore' = EmptyStore
  /\ heap' = Gc(EmptyStore, instStore, heap)
  /\ last' = [op |-> "NewContext"]
  /\ log' = <<>>
  /\ pre' = Stores
  /\ prev' = last
  /\ nops' = nops + 1
  /\ UNCHANGED <<tm, sharedUp, store, instStore, sharedStore, nfaults>>
  /\ UNCHANGED notDb

\* calls on one key or entity at a time
Next ==
  \/ DoGets(Singles, MaxOps)
  \/ DoSave(Singles, MaxOps)
  \/ DoDeletes(Singles, MaxOps)
  \/ NewContext(MaxOps)

Spec == Init /\ [][Next]_vars

\* multi-key reads
NextBatch ==
  \/ DoGets(Batches, MaxOps)
  \/ NewContext(MaxOps)

SpecBatch == Init /\ [][NextBatch]_vars

\* loads that may create, among writes and deletes of one entity
NextLoadOne ==
  \/ DoLoadOne(MaxLoadOps)
  \/ DoSave(Singles, MaxLoadOps)
  \/ DoDeletes(Singles, MaxLoadOps)
  \/ NewContext(MaxLoadOps)

SpecLoadOne == Init /\ [][NextLoadOne]_vars

\* the calls that read: Get, Gets, LoadOne
NextRead ==
  \/ DoGet(MaxLoadOps)
  \/ DoGets(Batches, MaxLoadOps)
  \/ DoLoadOne(MaxLoadOps)
  \/ NewContext(MaxLoadOps)

SpecRead == Init /\ [][NextRead]_vars

\* the batches that name every key once
FullBatches ==
  {b \in Batches : Len(b) = NumKeys /\ \A i, j \in Idx(b) : b[i] = b[j] => i = j}

\* writes of several entities at once, among reads that fill the caches
NextPuts ==
  \/ DoGets(Singles, MaxLoadOps)
  \/ DoSave(FullBatches, MaxLoadOps)
  \/ NewContext(MaxLoadOps)

SpecPuts == Init /\ [][NextPuts]_vars

\* an application whose backend holds an entity under every key
InitHooks ==
  /\ tm \in TypeMetas
  /\ sharedUp \in BOOLEAN
  /\ store = [k \in Keys |-> 1]
  /\ reqStore = EmptyStore
  /\ instStore = EmptyStore
  /\ sharedStore = EmptyStore
  /\ heap = [o \in Objs |-> Zero]
  /\ last = [op |-> "Init"]
  /\ prev = [op |-> "Init"]
  /\ log = <<>>
  /\ pre = [rs |-> EmptyStore, is |-> EmptyStore, ss |-> EmptyStore]
  /\ nops = 0
  /\ nfaults = 0
  /\ IdleButDb

\* reads and writes of several entities at once
NextHooks ==
  \/ DoGets(Batches, MaxHookOps)
  \/ DoSave(Batches, MaxHookOps)

SpecHooks == InitHooks /\ [][NextHooks]_vars

----------------------------------------------------------------------------
(* What the claims speak about. *)

Range(s) == {s[i] : i \in Idx(s)}

\* no tier holds an entry for key k: the request store under the encoded
\* key, the instance and shared caches under the prefixed one (where CachePut
\* puts it and CacheGet looks for it)
NoTierHolds(rs, is, ss, k) ==
  /\ rs[Raw(k)] = NoEntry
  /\ is[Pfx(k)] = NoEntry
  /\ ss[Pfx(k)] = NoEntry

\* the call w wrote or deleted key k in the backend
Wrote(w, k) ==
  \/ w.op = "Save" /\ w.dsPutOk /\ k \in Range(w.written)
  \/ w.op = "Deletes" /\ w.dsDelOk /\ k \in Range(w.keys)

\* the entity that the Save w left in the backend under key k
SavedAs(w, k) ==
  LET j == CHOOSE j \in Idx(w.written) :
             w.written[j] = k /\ \A h \in Idx(w.written) : w.written[h] = k => h <= j
  IN Entity(k, w.ents[j].val)

\* the tier (if any) in which the last Gets found an entry for its i-th key
FoundIn(i) ==
  {e.tier : e \in {log[h] : h \in {h \in Idx(log) :
      log[h].ev = "probe" /\ log[h].key = last.keys[i] /\ log[h].arg = "found"}}}

----------------------------------------------------------------------------
(* C1 *)

\* C1: after a Save (Puts) or Deletes for key K has returned nil, a Gets for
\* K with useCache that follows it immediately either finds K in no tier and
\* reads the backend, or returns the value just written; never an entity or
\* a negative from before the write.
C1_NoStaleReadAfterWrite ==
  (/\ last.op = "Gets" /\ last.useCache
   /\ prev.op \in {"Save", "Deletes"} /\ prev.err = Nil)
  => \A i \in Idx(last.keys) :
       Wrote(prev, last.keys[i]) =>
         \/ /\ last.cres[i] = CacheMiss
            /\ tm.ds => last.keys[i] \in Range(last.dsKeys)
         \/ /\ prev.op = "Save"
            /\ last.cres[i] = CacheHit
            /\ last.dst[i] = SavedAs(prev, last.keys[i])

----------------------------------------------------------------------------
(* What a Gets call met at the backend. *)

\* the errors of the backend, one per key it was called with
DsErrs(r) ==
  IF Base(r.dsErr).k = "multi" THEN Base(r.dsErr).errs
  ELSE [j \in Idx(r.dsKeys) |-> Nil]

\* the backend reported key k as not found
BackendNotFound(r, k) ==
  /\ r.dsCalled /\ Base(r.dsErr).k = "multi"
  /\ \E j \in Idx(r.dsKeys) :
       r.dsKeys[j] = k /\ DsErrs(r)[j] # Nil /\ IsNotFoundError(DsErrs(r)[j])

\* the backend loaded the entity at position j of the keys it was called with
BackendLoaded(r, j) ==
  /\ r.dsCalled
  /\ r.dsErr = Nil \/ (Base(r.dsErr).k = "multi" /\ DsErrs(r)[j] = Nil)

\* DatastoreGet returned an error that is not a per-key aggregate, or an
\* aggregate with an element that is neither nil nor not-found
Unpartitionable(r) ==
  /\ r.dsCalled /\ r.dsErr # Nil
  /\ \/ Base(r.dsErr).k # "multi"
     \/ \E j \in Idx(r.dsKeys) :
          DsErrs(r)[j] # Nil /\ ~IsNotFoundError(DsErrs(r)[j])

\* the call returned nil or its per-key aggregate
Completed(r) == r.err = Nil \/ Base(r.err).k = "multi"

\* slot i of the error the call returned is a not-found error
NotFoundAt(r, i) ==
  /\ Base(r.err).k = "multi"
  /\ i \in Idx(Base(r.err).errs)
  /\ Base(r.err).errs[i] # Nil
  /\ IsNotFoundError(Base(r.err).errs[i])

\* the tiers CacheGet and CachePut use for the type
EnabledTiers ==
  (IF tm.rc THEN {"rc"} ELSE {}) \cup (IF UseInstance THEN {"pc"} ELSE {})
    \cup (IF UseShared THEN {"mc"} ELSE {})

TierRank(t) == CASE t = "rc" -> 1 [] t = "pc" -> 2 [] t = "mc" -> 3

\* the positions in the log of the probes for the key at position i
ProbesOf(i) == {h \in Idx(log) : log[h].ev = "probe" /\ log[h].slot = i}

GetsThenGets ==
  /\ prev.op = "Gets" /\ prev.useCache
  /\ last.op = "Gets" /\ last.useCache
  /\ tm.rc \/ tm.pc \/ tm.mc

----------------------------------------------------------------------------
(* C2 *)

----------------------------------------------------------------------------
(* C3 *)

\* C3: in a Gets with useCache that runs to its end, every entity the backend
\* loaded, also in a batch in which other keys were reported not found, has
\* its key field applied, then its PostLoadHook invoked, and is then written
\* to every tier the type uses, before Gets returns.
C3_LoadedEntitiesPostLoadedAndCached ==
  (last.op = "Gets" /\ last.useCache /\ Completed(last))
  => \A j \in Idx(last.dsKeys) :
       BackendLoaded(last, j)
         => \E a, b \in Idx(log) :
              /\ a < b
              /\ log[a] = Ev("keyapply", "", last.dsKeys[j], "ok")
              /\ log[b] = Ev("postload", "", last.dsKeys[j], "ok")
              /\ \A t \in EnabledTiers :
                   \E h \in Idx(log) :
                      h > b /\ log[h] = Ev("put", t, last.dsKeys[j], "pos")

----------------------------------------------------------------------------
(* C4 *)

\* C4 (as stated): Gets writes a negative for key K into a tier only if the
\* backend's DatastoreGet reported K not found in that call.
C4_NegativeOnlyOnBackendNotFound ==
  last.op = "Gets"
  => \A h \in Idx(log) :
       (log[h].ev = "put" /\ log[h].arg = "neg")
         => BackendNotFound(last, log[h].key)

\* C4 (amended): Gets writes a negative for key K into a tier only if the
\* backend's DatastoreGet reported K not found in that call, or K missed the
\* caches and its type does not use the datastore (then no backend is asked);
\* a backend error other than not-found never produces a negative.
C4_NegativeOnlyOnMiss ==
  last.op = "Gets"
  => \A h \in Idx(log) :
       (log[h].ev = "put" /\ log[h].arg = "neg")
         => \/ BackendNotFound(last, log[h].key)
            \/ /\ ~tm.ds /\ ~last.dsCalled
               /\ \E i \in Idx(last.keys) :
                    last.keys[i] = log[h].key /\ last.cres[i] = CacheMiss

C4_Witness ==
  /\ last.op = "Gets" /\ last.useCache /\ tm.ds
  /\ last.keys = <<1, 2>> /\ last.dsKeys = <<1, 2>>
  /\ BackendNotFound(last, 2) /\ BackendLoaded(last, 1)
  /\ \E h \in Idx(log) : log[h] = Ev("put", "rc", 2, "neg")
  /\ \A h \in Idx(log) : log[h] # Ev("put", "rc", 1, "neg")

----------------------------------------------------------------------------
(* C5 *)

\* C5: when Gets returns its aggregate error, the aggregate has one slot per
\* requested key and, for every index j (also when a key is requested at
\* several indexes), slot j is a not-found error exactly when key j was a
\* cached negative or was reported not found by the backend, and nil exactly
\* when dst[j] was loaded.
C5_OneSlotPerKey ==
  (last.op = "Gets" /\ Base(last.err).k = "multi")
  => /\ Len(Base(last.err).errs) = Len(last.keys)
     /\ \A j \in Idx(last.keys) :
          /\ NotFoundAt(last, j)
               <=> \/ last.useCache /\ last.cres[j] = CacheNeg
                   \/ BackendNotFound(last, last.keys[j])
          /\ Base(last.err).errs[j] = Nil <=> last.dst[j].val # 0

----------------------------------------------------------------------------
(* C6 *)

NoPostLoadNoCacheWrite ==
  /\ \A h \in Idx(log) : log[h].ev \notin {"keyapply", "postload", "put"}
  /\ Stores = pre

----------------------------------------------------------------------------
(* C7 *)

\* C7: in a Gets with useCache each key is looked up in the request cache,
\* then the process cache, then the shared cache; an entry (positive or
\* negative) found in a tier ends the lookup of the key, which is then not
\* passed to DatastoreGet; the backend is called, after the lookups, only
\* with keys for which every tier the type uses was consulted and none held
\* an entry.
C7_LookupOrder ==
  (last.op = "Gets" /\ last.useCache)
  => /\ \A i \in Idx(last.keys) :
          /\ \A h1, h2 \in ProbesOf(i) :
               h1 < h2 => /\ TierRank(log[h1].tier) < TierRank(log[h2].tier)
                          /\ log[h1].arg # "found"
          /\ (\E h \in ProbesOf(i) : log[h].arg = "found")
               => /\ last.keys[i] \notin Range(last.dsKeys)
                  /\ last.cres[i] \in {CacheNeg, CacheHit}
     /\ \A j \in Idx(last.dsKeys) :
          \A i \in Idx(last.keys) :
            last.keys[i] = last.dsKeys[j]
              => /\ {log[h].tier : h \in ProbesOf(i)} = EnabledTiers
                 /\ \A h \in ProbesOf(i) : log[h].arg # "found"
     /\ \A h, g \in Idx(log) :
          (log[h].ev = "probe" /\ log[g].ev = "dsget") => h < g

C7_Witness ==
  /\ last.op = "Gets" /\ last.useCache
  /\ EnabledTiers = {"rc", "pc", "mc"}
  /\ last.keys = <<1, 2>> /\ last.dsKeys = <<2>>
  /\ \E h \in ProbesOf(1) : log[h].tier = "pc" /\ log[h].arg = "found"
  /\ \E h \in ProbesOf(1) : log[h].tier = "rc" /\ log[h].arg = "none"

----------------------------------------------------------------------------
(* C8 *)

\* C8: whenever DatastorePut succeeded inside Puts, then when Puts returns
\* (nil, or an error of the key write-back or of a PostSaveHook) no tier
\* holds an entry for any key written.
C8_NoEntryAfterPuts ==
  (last.op = "Save" /\ last.dsPutOk)
  => \A k \in Range(last.written) :
       NoTierHolds(reqStore, instStore, sharedStore, k)

----------------------------------------------------------------------------
(* C9 *)

\* C9: Deletes removes keys from the tiers only after DatastoreDelete
\* returned success, and then from every tier whatever the flags of the
\* type; when DatastoreDelete returns an error Deletes returns it and leaves
\* every tier as it was.
C9_DeletesInvalidatesEveryTier ==
  last.op = "Deletes"
  => /\ \A h \in Idx(log) :
          log[h].ev = "del" => log[1] = Ev("dsdel", "ds", 0, "ok")
     /\ (last.dsDelOk /\ last.err = Nil)
          => \A k \in Range(last.keys) :
               NoTierHolds(reqStore, instStore, sharedStore, k)
     /\ ~last.dsDelOk
          => /\ Base(last.err) = Other("DatastoreDelete")
             /\ Stores = pre

----------------------------------------------------------------------------
(* C10 *)

\* a Gets with useCache for the one key that the Save before it, of one new
\* entity, got from the backend
GetAfterSaveOfNew ==
  /\ prev.op = "Save" /\ prev.keys = <<0>> /\ prev.err = Nil /\ prev.dsPutOk
  /\ last.op = "Gets" /\ last.useCache /\ last.keys = prev.written

----------------------------------------------------------------------------
(* Struct metadata: the db tags of a struct type, parsed into a TypeMeta.  *)
(* A tag is the list of its comma-separated tokens; a token name=val is    *)
(* [name, eq |-> TRUE, val], a bare token is [name, eq |-> FALSE].         *)

StructInfoField == "_struct"

ALWAYS_FVC == 1
NOT_ALWAYS_FVC == 2
EMPTY_FVC == 3
NOT_EMPTY_FVC == 4

STRUC_FTYPE == 1
MARSHAL_FTYPE == 2
EXPANDO_FTYPE == 3
ITREE_FTYPE == 4
REGULAR_FTYPE == 5

Tok(name, val) == [name |-> name, eq |-> TRUE, val |-> val]
Bare(name) == [name |-> name, eq |-> FALSE, val |-> ""]

\* strconv.ParseBool: the spellings it accepts
TrueStrings == {"1", "t", "T", "TRUE", "true", "True"}
FalseStrings == {"0", "f", "F", "FALSE", "false", "False"}

\* bValue: a string ParseBool rejects is false
bValue(s) == IF s \in TrueStrings \cup FalseStrings THEN s \in TrueStrings
             ELSE FALSE

\* time.ParseDuration on the durations used here, in seconds; any other
\* string is an error
Durations == [x \in {"30s", "10m"} |-> IF x = "30s" THEN 30 ELSE 600]

\* strconv.ParseUint(s, 10, 8) on the numbers used here; any other string is
\* an error
Uint8s == [x \in {"0", "7", "255"} |->
            IF x = "0" THEN 0 ELSE IF x = "7" THEN 7 ELSE 255]

NewDbFieldMeta ==
  [ReflectType |-> "", FieldName |-> "", DbName |-> "",
   Store |-> <<>>, Index |-> <<>>, Type |-> REGULAR_FTYPE]

NewTypeMeta ==
  [Type |-> "", Kind |-> "", Shape |-> "", KindId |-> 0, ShapeId |-> 0,
   AutoHooks |-> FALSE, Pinned |-> FALSE,
   UseRequestCache |-> TRUE, UseInstanceCache |-> FALSE,
   UseSharedCache |-> TRUE, UseDatastore |-> TRUE,
   InstanceCacheTimeout |-> 600, SharedCacheTimeout |-> 600,
   KeyField |-> "", ShapeField |-> "", ParentKeyField |-> "",
   ParentKind |-> "", ParentShape |-> "", ParentShapeField |-> "",
   DbFields |-> <<>>]

getStructMetaKindKey(kind, shape) ==
  IF shape # "" THEN kind \o ":" \o shape ELSE kind

\* the result of a parsing step: the TypeMeta so far and the error
Parsed(m, err) == [tm |-> m, err |-> err]

\* the first switch of the loop over the _struct tokens: bare flags
StructInfoFlag(m, tok) ==
  IF tok.eq THEN m
  ELSE CASE tok.name = "auto" -> [m EXCEPT !.AutoHooks = TRUE]
         [] tok.name = "rc" -> [m EXCEPT !.UseRequestCache = TRUE]
         [] tok.name = "pc" -> [m EXCEPT !.UseInstanceCache = TRUE]
         [] tok.name = "mc" -> [m EXCEPT !.UseSharedCache = TRUE]
         [] tok.name = "ds" -> [m EXCEPT !.UseDatastore = TRUE]
         [] tok.name = "pinned" -> [m EXCEPT !.Pinned = TRUE]
         [] OTHER -> m

\* the second switch: name=value tokens
StructInfoValue(m, tok) ==
  IF ~tok.eq THEN Parsed(m, Nil)
  ELSE CASE tok.name = "auto" ->
              Parsed([m EXCEPT !.AutoHooks = bValue(tok.val)], Nil)
         [] tok.name = "rc" ->
              Parsed([m EXCEPT !.UseRequestCache = bValue(tok.val)], Nil)
         [] tok.name = "pc" ->
              Parsed([m EXCEPT !.UseInstanceCache = bValue(tok.val)], Nil)
         [] tok.name = "mc" ->
              Parsed([m EXCEPT !.UseSharedCache = bValue(tok.val)], Nil)
         [] tok.name = "ds" ->
              Parsed([m EXCEPT !.UseDatastore = bValue(tok.val)], Nil)
         [] tok.name = "pinned" ->
              Parsed([m EXCEPT !.Pinned = bValue(tok.val)], Nil)
         [] tok.name = "pcto" ->
              IF tok.val \in DOMAIN Durations
              THEN Parsed([m EXCEPT !.InstanceCacheTimeout =
                                      Durations[tok.val]], Nil)
              ELSE Parsed(m, Other("ParseDuration"))
         [] tok.name = "mcto" ->
              IF tok.val \in DOMAIN Durations
              THEN Parsed([m EXCEPT !.SharedCacheTimeout =
                                      Durations[tok.val]], Nil)
              ELSE Parsed(m, Other("ParseDuration"))
         [] tok.name = "keyf" -> Parsed([m EXCEPT !.KeyField = tok.val], Nil)
         [] tok.name = "kind" -> Parsed([m EXCEPT !.Kind = tok.val], Nil)
         [] tok.name = "kindid" ->
              IF tok.val \in DOMAIN Uint8s
              THEN Parsed([m EXCEPT !.KindId = Uint8s[tok.val]], Nil)
              ELSE Parsed(m, Other("ParseUint"))
         [] tok.name = "shapeid" ->
              IF tok.val \in DOMAIN Uint8s
              THEN Parsed([m EXCEPT !.ShapeId = Uint8s[tok.val]], Nil)
              ELSE Parsed(m, Other("ParseUint"))
         [] tok.name = "shape" -> Parsed([m EXCEPT !.Shape = tok.val], Nil)
         [] tok.name = "shapef" ->
              Parsed([m EXCEPT !.ShapeField = tok.val], Nil)
         [] tok.name = "pkeyf" ->
              Parsed([m EXCEPT !.ParentKeyField = tok.val], Nil)
         [] tok.name = "pkind" ->
              Parsed([m EXCEPT !.ParentKind = tok.val], Nil)
         [] tok.name = "pshape" ->
              Parsed([m EXCEPT !.ParentShape = tok.val], Nil)
         [] tok.name = "pshapef" ->
              Parsed([m EXCEPT !.ParentShapeField = tok.val], Nil)
         [] OTHER -> Parsed(m, Nil)

\* the loop over the tokens of the _struct tag, from token i on
RECURSIVE StructInfoLoop(_, _, _)
StructInfoLoop(m, stv, i) ==
  IF i > Len(stv) THEN Parsed(m, Nil)
  ELSE LET r == StructInfoValue(StructInfoFlag(m, stv[i]), stv[i])
       IN IF r.err # Nil THEN r ELSE StructInfoLoop(r.tm, stv, i + 1)

\* rt.info is the tag of the _struct field, <<>> when the type has no such
\* field or the field has no db tag
addStructMetaFromTypeForStructInfo(rt, m) == StructInfoLoop(m, rt.info, 1)

FVCOf(s2) ==
  CASE s2 = "y" -> <<ALWAYS_FVC>>
    [] s2 = "!y" -> <<NOT_ALWAYS_FVC>>
    [] s2 = "z" -> <<EMPTY_FVC>>
    [] s2 = "!z" -> <<NOT_EMPTY_FVC>>
    [] OTHER -> <<>>

\* s is the value split at "|"
RECURSIVE appendFVC(_, _)
appendFVC(s, fvca) ==
  IF s = <<>> THEN fvca ELSE appendFVC(Tail(s), fvca \o FVCOf(Head(s)))

FieldToken(fm, tok) ==
  IF ~tok.eq THEN fm
  ELSE CASE tok.name = "dbname" -> [fm EXCEPT !.DbName = tok.val]
         [] tok.name = "ftype" ->
              CASE tok.val = "struc" -> [fm EXCEPT !.Type = STRUC_FTYPE]
                [] tok.val = "marshal" -> [fm EXCEPT !.Type = MARSHAL_FTYPE]
                [] tok.val = "expando" -> [fm EXCEPT !.Type = EXPANDO_FTYPE]
                [] tok.val = "tree" -> [fm EXCEPT !.Type = ITREE_FTYPE]
                [] OTHER -> fm
         [] tok.name = "store" ->
              [fm EXCEPT !.Store = appendFVC(tok.val, fm.Store)]
         [] tok.name = "index" ->
              [fm EXCEPT !.Index = appendFVC(tok.val, fm.Index)]
         [] OTHER -> fm

RECURSIVE FieldTokens(_, _)
FieldTokens(fm, stv) ==
  IF stv = <<>> THEN fm ELSE FieldTokens(FieldToken(fm, Head(stv)), Tail(stv))

\* the DbFieldMeta of a tagged field, with the defaults of an empty Index
\* and Store
FieldMeta(sf) ==
  LET fm == FieldTokens([NewDbFieldMeta EXCEPT !.ReflectType = sf.Type,
                                               !.FieldName = sf.Name,
                                               !.DbName = sf.Name], sf.tag)
  IN [fm EXCEPT !.Index = IF @ = <<>> THEN <<NOT_EMPTY_FVC>> ELSE @,
                !.Store = IF @ = <<>> THEN <<NOT_EMPTY_FVC>> ELSE @]

DbNameBound(m, name) == \E n \in DOMAIN m.DbFields : m.DbFields[n].DbName = name

BindField(m, fm) ==
  [m EXCEPT !.DbFields = [n \in DOMAIN @ \cup {fm.FieldName} |->
                            IF n = fm.FieldName THEN fm ELSE @[n]]]

\* the loop over the fields, from field i on.  The fields of an embedded
\* struct (sf.Anonymous) are added by the same loop, and an error of that
\* inner loop is dropped: what it bound before the error stays bound.
RECURSIVE addStructMetaFromType(_, _, _)
addStructMetaFromType(fields, m, i) ==
  IF i > Len(fields) THEN Parsed(m, Nil)
  ELSE LET sf == fields[i] IN
    IF sf.Name = StructInfoField THEN addStructMetaFromType(fields, m, i + 1)
    ELSE IF sf.Anonymous
      THEN addStructMetaFromType(
             fields, addStructMetaFromType(sf.Type, m, 1).tm, i + 1)
    ELSE IF sf.tag = <<>> THEN addStructMetaFromType(fields, m, i + 1)
    ELSE IF DbNameBound(m, FieldMeta(sf).DbName)
      THEN Parsed(m, Errorf("Error binding dbname", <<FieldMeta(sf).DbName>>))
    ELSE addStructMetaFromType(fields, BindField(m, FieldMeta(sf)), i + 1)

----------------------------------------------------------------------------
(* The struct types of the program and the registry of their metadata. *)

MaxCalls == 3
NumProcs == 2
Procs == 1..NumProcs

Field(name, tag) ==
  [Name |-> name, Anonymous |-> FALSE, Type |-> "int64", tag |-> tag]
Embedded(name, fields) ==
  [Name |-> name, Anonymous |-> TRUE, Type |-> fields, tag |-> <<>>]
StructType(name, info, fields) ==
  [name |-> name, knd |-> "struct", info |-> info, fields |-> fields]
PtrTo(t) == [name |-> "*" \o t.name, knd |-> "ptr", elem |-> t]
IntType == [name |-> "int", knd |-> "int"]

\* two types of one kind and shape, a type whose kind spells the same kind
\* key, types without a kind, and types with tags that are not well formed
StructTypes ==
  { StructType("A", <<Tok("kind", "K1"), Tok("shape", "S1"), Bare("pc"),
                      Tok("pcto", "30s"), Tok("keyf", "Id")>>,
               <<Field("_struct", <<>>),
                 Field("Id", <<Tok("dbname", "id"), Tok("index", <<"y">>)>>)>>),
    StructType("B", <<Tok("kind", "K1"), Tok("shape", "S1")>>, <<>>),
    StructType("C", <<Tok("kind", "K1:S1")>>, <<>>),
    StructType("N", <<Tok("rc", "false")>>,
               <<Field("V", <<Tok("store", <<"y", "!z">>)>>)>>),
    StructType("P", <<>>, <<Field("U", <<>>)>>),
    StructType("Bool", <<Tok("kind", "K2"), Tok("rc", "maybe")>>, <<>>),
    StructType("Dur", <<Tok("kind", "K3"), Tok("pcto", "soon")>>, <<>>),
    StructType("Ft", <<Tok("kind", "K4")>>,
               <<Field("F", <<Tok("ftype", "bogus")>>)>>),
    StructType("St", <<Tok("kind", "K5")>>,
               <<Field("F", <<Tok("store", <<"q">>)>>)>>),
    StructType("Dup", <<Tok("kind", "K6")>>,
               <<Field("F", <<Tok("dbname", "x")>>),
                 Field("G", <<Tok("dbname", "x")>>)>>),
    StructType("Emb", <<Tok("kind", "K7")>>,
               <<Field("F", <<Tok("dbname", "x"), Tok("ftype", "tree")>>),
                 Embedded("E", <<Field("G", <<Tok("dbname", "x")>>)>>)>>) }

TypeNamed(n) == CHOOSE t \in StructTypes : t.name = n

\* the types GetStructMetaFromType is called with
ReflectTypes ==
  StructTypes \cup {PtrTo(TypeNamed("A")), PtrTo(TypeNamed("N")),
                    IntType, PtrTo(IntType)}

NoMeta == [Type |-> "nil"]

\* safestore.Put with ttl 0: the value stays until it is replaced
SafePut(c, key, val) ==
  [x \in DOMAIN c \cup {key} |-> IF x = key THEN val ELSE c[x]]

\* safestore.Get: nil for an absent key
SafeHas(c, key) == key \in DOMAIN c

GsmResult(metas, kinds, m, err, parsed) ==
  [metas |-> metas, kinds |-> kinds, tm |-> m, err |-> err,
   parsed |-> parsed]

\* mutation: the type is registered whatever its kind key is bound to
RegisterKindNoCheck(metas, kinds, rt, m) ==
  IF m.Kind = "" THEN GsmResult(metas, kinds, m, Nil, TRUE)
  ELSE GsmResult(SafePut(metas, rt, m),
                 SafePut(kinds, getStructMetaKindKey(m.Kind, m.Shape), rt),
                 m, Nil, TRUE)

\* a parsed type with a kind is registered unless its kind key is taken; a
\* type without a kind is returned and not stored
RegisterKind(metas, kinds, rt, m) ==
  IF m.Kind = "" THEN GsmResult(metas, kinds, m, Nil, TRUE)
  ELSE IF SafeHas(kinds, getStructMetaKindKey(m.Kind, m.Shape))
    THEN GsmResult(metas, kinds, NoMeta,
                   Errorf("Error registering", <<m.Kind, m.Shape>>), TRUE)
  ELSE GsmResult(SafePut(metas, rt, m),
                 SafePut(kinds, getStructMetaKindKey(m.Kind, m.Shape), rt),
                 m, Nil, TRUE)

CreateFields(metas, kinds, rt, r) ==
  IF r.err # Nil THEN GsmResult(metas, kinds, r.tm, r.err, TRUE)
  ELSE RegisterKind(metas, kinds, rt, r.tm)

CreateInfo(metas, kinds, rt, r) ==
  IF r.err # Nil THEN GsmResult(metas, kinds, r.tm, r.err, TRUE)
  ELSE CreateFields(metas, kinds, rt, addStructMetaFromType(rt.fields, r.tm, 1))

\* the part of GetStructMetaFromType that runs under structMetasMutex
GetStructMetaLocked(metas, kinds, rt) ==
  IF SafeHas(metas, rt) THEN GsmResult(metas, kinds, metas[rt], Nil, FALSE)
  ELSE CreateInfo(metas, kinds, rt,
                  addStructMetaFromTypeForStructInfo(
                    rt, [NewTypeMeta EXCEPT !.Type = rt.name]))

GetLoadedReflectTypeFromKind(kinds, kind, shape) ==
  kinds[getStructMetaKindKey(kind, shape)]

GetLoadedStructMetaFromKind(metas, kinds, kind, shape) ==
  metas[GetLoadedReflectTypeFromKind(kinds, kind, shape)]

InitMeta ==
  /\ StructMetas = <<>>
  /\ StructMetaKinds = <<>>
  /\ structMetasMutex = 0
  /\ gsm = [p \in Procs |-> [pc |-> "idle"]]
  /\ ret = [p \in Procs |-> [op |-> "none"]]
  /\ parses = [t \in StructTypes |-> 0]
  /\ ncalls = 0
  /\ IdleButMeta

\* a goroutine calls GetStructMetaFromType(rt): a type that is no struct and
\* no pointer to one is refused before the mutex is taken
GsmCall(p, rt) ==
  /\ gsm[p].pc = "idle"
  /\ ncalls < MaxCalls
  /\ ncalls' = ncalls + 1
  /\ LET rt1 == IF rt.knd = "ptr" THEN rt.elem ELSE rt IN
       IF rt1.knd # "struct"
       THEN /\ ret' = [ret EXCEPT ![p] =
                         [op |-> "GetStructMetaFromType", rt00 |-> rt,
                          rt |-> rt1, tm |-> NoMeta,
                          err |-> OnErrorf(Errorf("Only struct", <<rt.name>>)),
                          parsed |-> FALSE,
                          metas |-> StructMetas, kinds |-> StructMetaKinds]]
            /\ UNCHANGED gsm
       ELSE /\ gsm' = [gsm EXCEPT ![p] =
                         [pc |-> "lock", rt00 |-> rt, rt |-> rt1]]
            /\ UNCHANGED ret
  /\ UNCHANGED <<StructMetas, StructMetaKinds, structMetasMutex, parses>>
  /\ UNCHANGED notMeta

GsmLock(p) ==
  /\ gsm[p].pc = "lock"
  /\ structMetasMutex = 0
  /\ structMetasMutex' = p
  /\ gsm' = [gsm EXCEPT ![p].pc = "locked"]
  /\ UNCHANGED <<StructMetas, StructMetaKinds, ret, parses, ncalls>>
  /\ UNCHANGED notMeta

\* the body under the mutex; returning releases the mutex and wraps the error
GsmReturn(p, r) ==
  /\ StructMetas' = r.metas
  /\ StructMetaKinds' = r.kinds
  /\ structMetasMutex' = 0
  /\ parses' = IF r.parsed THEN [parses EXCEPT ![gsm[p].rt] = @ + 1]
               ELSE parses
  /\ ret' = [ret EXCEPT ![p] =
               [op |-> "GetStructMetaFromType", rt00 |-> gsm[p].rt00,
                rt |-> gsm[p].rt, tm |-> r.tm, err |-> OnErrorf(r.err),
                parsed |-> r.parsed,
                metas |-> StructMetas, kinds |-> StructMetaKinds]]
  /\ gsm' = [gsm EXCEPT ![p] = [pc |-> "idle"]]
  /\ UNCHANGED ncalls
  /\ UNCHANGED notMeta

GsmBody(p) ==
  /\ gsm[p].pc = "locked"
  /\ structMetasMutex = p
  /\ GsmReturn(p, GetStructMetaLocked(StructMetas, StructMetaKinds, gsm[p].rt))

NextMeta ==
  \/ \E p \in Procs, rt \in ReflectTypes : GsmCall(p, rt)
  \/ \E p \in Procs : GsmLock(p)
  \/ \E p \in Procs : GsmBody(p)

SpecMeta == InitMeta /\ [][NextMeta]_vars

----------------------------------------------------------------------------
(* Claims about the registry of struct metadata. *)

\* the kind and shape a type's _struct tag configures
TagMeta(t) == addStructMetaFromTypeForStructInfo(t, NewTypeMeta).tm

SameKindShape(m1, m2) == m1.Kind = m2.Kind /\ m1.Shape = m2.Shape

GsmReturned(p) == ret[p].op = "GetStructMetaFromType"

\* the types registered when the call of p ran that have the kind and shape
\* of the type of the call, and are not that type
Rivals(p) ==
  {t0 \in DOMAIN ret[p].metas :
     /\ t0 # ret[p].rt
     /\ ret[p].rt.knd = "struct"
     /\ TagMeta(ret[p].rt).Kind # ""
     /\ SameKindShape(ret[p].metas[t0], TagMeta(ret[p].rt))}

\* C11: at most one type is registered per (Kind, Shape) pair: a call for a
\* second, different type of the same Kind and Shape returns an error, and
\* from then on the lookup by that (Kind, Shape) and the entry of the first
\* type give the descriptor the first type had before the call.
C11_OneTypePerKindShape ==
  /\ \A t1, t2 \in DOMAIN StructMetas :
       SameKindShape(StructMetas[t1], StructMetas[t2]) => t1 = t2
  /\ \A p \in Procs :
       GsmReturned(p) =>
         \A t0 \in Rivals(p) :
           /\ ret[p].err # Nil
           /\ ret[p].rt \notin DOMAIN StructMetas
           /\ t0 \in DOMAIN StructMetas
           /\ StructMetas[t0] = ret[p].metas[t0]
           /\ GetLoadedReflectTypeFromKind(StructMetaKinds,
                ret[p].metas[t0].Kind, ret[p].metas[t0].Shape) = t0
           /\ GetLoadedStructMetaFromKind(StructMetas, StructMetaKinds,
                ret[p].metas[t0].Kind, ret[p].metas[t0].Shape)
                = ret[p].metas[t0]

\* a call for a second type of a registered kind and shape has returned, and
\* the first type has been looked up again since
C11_Witness ==
  \E p, q \in Procs :
    /\ GsmReturned(p) /\ Rivals(p) # {}
    /\ GsmReturned(q) /\ ret[q].rt \in Rivals(p) /\ ~ret[q].parsed

\* the tags of the type parse without an error
ParsesCleanly(t) ==
  /\ addStructMetaFromTypeForStructInfo(t, NewTypeMeta).err = Nil
  /\ addStructMetaFromType(t.fields, TagMeta(t), 1).err = Nil

\* the kind key of the type is bound to another type
Refused(t) ==
  /\ TagMeta(t).Kind # ""
  /\ SafeHas(StructMetaKinds,
             getStructMetaKindKey(TagMeta(t).Kind, TagMeta(t).Shape))
  /\ StructMetaKinds[getStructMetaKindKey(TagMeta(t).Kind, TagMeta(t).Shape)]
       # t

\* C12: the tags of every struct type, with or without a configured kind,
\* are parsed at most once, whatever the interleaving of the calls: the
\* first call stores the descriptor and a later call returns the stored one.
\* (Types whose tags do not parse or whose kind is taken have no descriptor
\* to store, and are left out.)
C12_TagsParsedAtMostOnce ==
  /\ \A t \in StructTypes :
       ParsesCleanly(t) /\ ~Refused(t) => parses[t] <= 1
  /\ \A p \in Procs :
       GsmReturned(p) /\ ret[p].rt \in StructTypes /\ ~ret[p].parsed =>
         ret[p].tm = StructMetas[ret[p].rt]

BoolTokens == {"auto", "rc", "pc", "mc", "ds"}
FieldTypes == {"struc", "marshal", "expando", "tree"}
FVCTokens == {"y", "!y", "z", "!z"}

MalformedInfoToken(tok) ==
  /\ tok.eq
  /\ \/ tok.name \in BoolTokens /\ tok.val \notin TrueStrings \cup FalseStrings
     \/ tok.name \in {"pcto", "mcto"} /\ tok.val \notin DOMAIN Durations

MalformedFieldToken(tok) ==
  /\ tok.eq
  /\ \/ tok.name = "ftype" /\ tok.val \notin FieldTypes
     \/ /\ tok.name \in {"store", "index"}
        /\ \E i \in DOMAIN tok.val : tok.val[i] \notin FVCTokens

Malformed(t) ==
  \/ \E i \in DOMAIN t.info : MalformedInfoToken(t.info[i])
  \/ \E i \in DOMAIN t.fields :
       /\ ~t.fields[i].Anonymous
       /\ \E j \in DOMAIN t.fields[i].tag :
            MalformedFieldToken(t.fields[i].tag[j])

\* C17: GetStructMetaFromType returns an error and registers nothing when a
\* struct tag or a field tag has a token with a malformed value (a value
\* of auto/rc/pc/mc/ds that is no boolean, a pcto/mcto that is no duration,
\* an unknown ftype, an unknown store or index token), and returns an error
\* for a type that is no struct and no pointer to a struct.
C17_MalformedTagIsAnError ==
  \A p \in Procs :
    GsmReturned(p) =>
      /\ ret[p].rt.knd # "struct" => ret[p].err # Nil
      /\ ret[p].rt.knd = "struct" /\ Malformed(ret[p].rt) =>
           ret[p].err # Nil /\ ret[p].rt \notin DOMAIN StructMetas

----------------------------------------------------------------------------
(* Datastore keys: DatastoreKey makes the key of an entity from its key,    *)
(* parent-key and shape fields, FromDatastoreKey writes a key back into an  *)
(* entity.  An entity is a function from its field names to their values.   *)

MaxId == 2
MaxKeyCalls == 3

NilKey == [kind |-> "nil"]
Key(kind, shape, id, pkey) ==
  [kind |-> kind, shape |-> shape, id |-> id, parent |-> pkey]

\* Key.Incomplete, Key.EntityId
Incomplete(k) == k.id = 0
EntityId(k) == k.id

\* the driver calls one operation makes; the driver fails the call numbered
\* flt, if any
KeyFaults == 0..2

\* LowLevelDriver.NewKey: a key of the kind, shape, id and parent given; an
\* id below 0 has the backend allocate a new id.  n is the number of the
\* call among the driver calls of the operation.
NewKey(kind, shape, intId, pkey, seq, n, flt) ==
  IF flt = n THEN [k |-> NilKey, err |-> Other("NewKey"), seq |-> seq]
  ELSE IF intId < 0
    THEN [k |-> Key(kind, shape, seq + 1, pkey), err |-> Nil, seq |-> seq + 1]
  ELSE [k |-> Key(kind, shape, intId, pkey), err |-> Nil, seq |-> seq]

\* LowLevelDriver.GetInfoFromKey
GetInfoFromKey(k, n, flt) ==
  IF flt = n THEN [kind |-> "", shape |-> "", intId |-> 0,
                   err |-> Other("GetInfoFromKey")]
  ELSE [kind |-> k.kind, shape |-> k.shape, intId |-> k.id, err |-> Nil]

\* LowLevelDriver.ParentKey
ParentKey(k) == k.parent

\* s.FieldByName(name).IsValid()
IsValid(s, name) == name \in DOMAIN s

\* the shape is written to the shape field when the field is there and empty
SetShape(s, shapefield, shape) ==
  IF shape # "" /\ shapefield # "" /\ IsValid(s, shapefield)
     /\ s[shapefield] = ""
  THEN [s EXCEPT ![shapefield] = shape]
  ELSE s

DskeyResult(s, k, err, seq, calls) ==
  [s |-> s, k |-> k, err |-> err, seq |-> seq, calls |-> calls]

DskeyAfterNewKey(s, keyfield, intId, nk) ==
  IF nk.err # Nil
  THEN DskeyResult(s, nk.k, OnErrorf(nk.err), nk.seq, <<"NewKey">>)
  ELSE IF ~Incomplete(nk.k) /\ intId <= 0
    THEN DskeyResult([s EXCEPT ![keyfield] = EntityId(nk.k)], nk.k, Nil,
                     nk.seq, <<"NewKey">>)
  ELSE DskeyResult(s, nk.k, Nil, nk.seq, <<"NewKey">>)

dskey(s, keyfield, shapefield, kind, shape, pkey, seq, n, flt) ==
  DskeyAfterNewKey(SetShape(s, shapefield, shape), keyfield, s[keyfield],
                   NewKey(kind, shape, s[keyfield], pkey, seq, n, flt))

\* p is what dskey returned for the parent
DatastoreKeyWithParent(m, p, flt) ==
  IF p.err # Nil THEN p
  ELSE IF Incomplete(p.k)
    THEN [p EXCEPT !.k = NilKey,
                   !.err = Errorf("Parent Key is not in datastore",
                                  <<EntityId(p.k)>>)]
  ELSE LET r == dskey(p.s, m.KeyField, m.ShapeField, m.Kind, m.Shape, p.k,
                      p.seq, 2, flt)
       IN [r EXCEPT !.calls = p.calls \o @]

\* DatastoreKey(ctx, d) for an entity d of a type with TypeMeta m
DatastoreKey(d, m, seq, flt) ==
  LET r == IF m.ParentKeyField # ""
           THEN DatastoreKeyWithParent(
                  m, dskey(d, m.ParentKeyField, m.ParentShapeField,
                           m.ParentKind, m.ParentShape, NilKey, seq, 1, flt),
                  flt)
           ELSE dskey(d, m.KeyField, m.ShapeField, m.Kind, m.Shape, NilKey,
                      seq, 1, flt)
  IN [r EXCEPT !.err = OnErrorf(@)]

FromResult(s, err, calls) == [s |-> s, err |-> err, calls |-> calls]

fromDskey(s, field, key, n, flt) ==
  IF ~IsValid(s, field)
  THEN FromResult(s, OnErrorf(Errorf("No Field Named", <<field>>)), <<>>)
  ELSE IF GetInfoFromKey(key, n, flt).err # Nil
    THEN FromResult(s, OnErrorf(GetInfoFromKey(key, n, flt).err),
                    <<"GetInfoFromKey">>)
  ELSE FromResult([s EXCEPT ![field] = GetInfoFromKey(key, n, flt).intId],
                  Nil, <<"GetInfoFromKey">>)

\* mutation: the id of the parent key is not written back
FromDatastoreKeyNoParent(m, key, r, flt) ==
  IF r.err # Nil THEN r ELSE [r EXCEPT !.calls = @ \o <<"ParentKey">>]

\* r is what fromDskey returned for the key field
FromDatastoreKeyParent(m, key, r, flt) ==
  IF r.err # Nil THEN r
  ELSE IF ParentKey(key) = NilKey
    THEN [r EXCEPT !.calls = @ \o <<"ParentKey">>]
  ELSE LET q == fromDskey(r.s, m.ParentKeyField, ParentKey(key), 2, flt)
       IN [q EXCEPT !.calls = r.calls \o <<"ParentKey">> \o @]

\* FromDatastoreKey(ctx, d, key) for an entity d that is given (not nil)
FromDatastoreKey(d, m, key, flt) ==
  LET r == FromDatastoreKeyParent(
             m, key,
             fromDskey(SetShape(SetShape(d, m.ShapeField, m.Shape),
                                m.ParentShapeField, m.ParentShape),
                       m.KeyField, key, 1, flt), flt)
  IN [r EXCEPT !.err = OnErrorf(@)]

----------------------------------------------------------------------------
(* Keys made from an entity and written back into a fresh one. *)

\* the configurations of shape and parent of an entity type; every type
\* names its key field
KeyTypeMetas ==
  {[NewTypeMeta EXCEPT !.Kind = "K", !.KeyField = "Id",
                       !.Shape = sh[1], !.ShapeField = sh[2],
                       !.ParentKeyField = pa[1], !.ParentKind = pa[2],
                       !.ParentShape = pa[3], !.ParentShapeField = pa[4]] :
     sh \in {<<"", "">>, <<"", "Shape">>, <<"S1", "">>, <<"S1", "Shape">>},
     pa \in {<<"", "", "", "">>, <<"Pid", "P", "", "">>,
             <<"Pid", "P", "PS", "PShape">>}}

KeyEntities ==
  [Id : -1..MaxId, Pid : -1..1, Shape : {"", "S1", "X"}, PShape : {"", "PS"}]

ZeroEntity == [Id |-> 0, Pid |-> 0, Shape |-> "", PShape |-> ""]

InitKey ==
  /\ ktm \in KeyTypeMetas
  /\ ent \in KeyEntities
  /\ ent2 = ZeroEntity
  /\ kret = <<>>
  /\ seqId = MaxId
  /\ IdleButKey

KeyCall(op, on, d, r) ==
  [op |-> op, on |-> on, d |-> d, d2 |-> r.s, k |-> r.k, err |-> r.err,
   calls |-> r.calls]

\* DatastoreKey(ctx, d) on the entity
DoDatastoreKey ==
  \E flt \in KeyFaults :
    LET r == DatastoreKey(ent, ktm, seqId, flt) IN
      /\ Len(kret) < MaxKeyCalls
      /\ flt # 0 => r # DatastoreKey(ent, ktm, seqId, 0)
      /\ ent' = r.s
      /\ seqId' = r.seq
      /\ kret' = Append(kret, KeyCall("DatastoreKey", "ent", ent, r))
      /\ UNCHANGED <<ktm, ent2>>
      /\ UNCHANGED notKey

\* FromDatastoreKey(ctx, d, key) with a key that DatastoreKey returned and a
\* fresh entity d
DoFromDatastoreKey ==
  \E i \in DOMAIN kret, flt \in KeyFaults :
    LET r == FromDatastoreKey(ZeroEntity, ktm, kret[i].k, flt) IN
      /\ Len(kret) < MaxKeyCalls
      /\ kret[i].op = "DatastoreKey" /\ kret[i].err = Nil
      /\ flt # 0 => r # FromDatastoreKey(ZeroEntity, ktm, kret[i].k, 0)
      /\ ent2' = r.s
      /\ kret' = Append(kret, [op |-> "FromDatastoreKey", on |-> "ent2",
                               d |-> ZeroEntity, d2 |-> r.s, k |-> kret[i].k,
                               err |-> r.err, calls |-> r.calls])
      /\ UNCHANGED <<ktm, ent, seqId>>
      /\ UNCHANGED notKey

\* DatastoreKey(ctx, d) on the entity that a key was written into
DoDatastoreKey2 ==
  \E flt \in KeyFaults :
    LET r == DatastoreKey(ent2, ktm, seqId, flt) IN
      /\ Len(kret) < MaxKeyCalls
      /\ kret # <<>> /\ kret[Len(kret)].op = "FromDatastoreKey"
      /\ flt # 0 => r # DatastoreKey(ent2, ktm, seqId, 0)
      /\ ent2' = r.s
      /\ seqId' = r.seq
      /\ kret' = Append(kret, KeyCall("DatastoreKey", "ent2", ent2, r))
      /\ UNCHANGED <<ktm, ent>>
      /\ UNCHANGED notKey

NextKey == DoDatastoreKey \/ DoFromDatastoreKey \/ DoDatastoreKey2

SpecKey == InitKey /\ [][NextKey]_vars

----------------------------------------------------------------------------
(* Claims about datastore keys. *)

\* the driver failed a call of the operation
DriverFailed(c) == c.err # Nil /\ Base(c.err).k = "other"

\* C13: DatastoreKey on an entity whose configured parent-key field holds an
\* id that is not positive returns an error, makes no call to the backend
\* driver (no NewKey, no id allocation) and leaves the parent-key field as
\* it was.
C13_ParentNotPersisted ==
  \A i \in DOMAIN kret :
    /\ kret[i].op = "DatastoreKey"
    /\ ktm.ParentKeyField # ""
    /\ kret[i].d[ktm.ParentKeyField] <= 0
    => /\ kret[i].err # Nil
       /\ kret[i].calls = <<>>
       /\ kret[i].d2[ktm.ParentKeyField] = kret[i].d[ktm.ParentKeyField]

\* the fields of the entity that the type names as key, parent-key and shape
\* fields
KeyFields ==
  {ktm.KeyField, ktm.ParentKeyField, ktm.ShapeField} \ {""}

SameKey(k1, k2) ==
  /\ k1.kind = k2.kind
  /\ k1.shape = k2.shape
  /\ k1.id = k2.id
  /\ (k1.parent = NilKey) = (k2.parent = NilKey)
  /\ k1.parent # NilKey => k1.parent.id = k2.parent.id

\* the calls so far are DatastoreKey on an entity with a positive id,
\* FromDatastoreKey of its key on a fresh entity, DatastoreKey on that one,
\* and the driver failed none of them
RoundTrip ==
  /\ Len(kret) = 3
  /\ kret[1].op = "DatastoreKey" /\ kret[1].on = "ent" /\ kret[1].d.Id > 0
  /\ kret[2].op = "FromDatastoreKey" /\ kret[2].k = kret[1].k
  /\ kret[3].op = "DatastoreKey" /\ kret[3].on = "ent2"
  /\ \A i \in 1..3 : ~DriverFailed(kret[i])

RoundTripHolds ==
  /\ kret[2].err = Nil
  /\ kret[3].err = Nil
  /\ SameKey(kret[3].k, kret[1].k)
  /\ \A f \in KeyFields : kret[2].d2[f] = kret[1].d2[f]

\* C14 (as stated): every entity with a positive id, with or without a
\* configured shape and with or without a complete parent, has a key, and
\* the key applied to a fresh entity with FromDatastoreKey and resolved
\* again gives a key of the same kind, shape, id and parent id, and a fresh
\* entity whose key, parent-key and shape fields equal the original's.
C14_KeyRoundTrip ==
  /\ \A i \in DOMAIN kret :
       /\ kret[i].op = "DatastoreKey" /\ kret[i].on = "ent"
       /\ kret[i].d.Id > 0 /\ ~DriverFailed(kret[i])
       => kret[i].err = Nil
  /\ RoundTrip => RoundTripHolds

\* C14 (amended): for every entity with a positive id for which DatastoreKey
\* returns a key, and whose shape field, if the type names one, is empty or
\* holds the shape of the type: the key applied to a fresh entity and
\* resolved again gives a key of the same kind, shape, id and parent id, and
\* a fresh entity whose key, parent-key and shape fields equal the
\* original's.
C14_KeyRoundTripWhenKeyed ==
  /\ RoundTrip
  /\ kret[1].err = Nil
  /\ ktm.ShapeField # "" => kret[1].d[ktm.ShapeField] \in {"", ktm.Shape}
  => RoundTripHolds

\* a round trip of an entity that has a parent and a shape field
C14_Witness ==
  /\ RoundTrip
  /\ kret[1].err = Nil
  /\ ktm.ParentKeyField # "" /\ ktm.ShapeField # "" /\ ktm.Shape # ""
  /\ kret[1].d[ktm.ShapeField] = ""
  /\ kret[1].k.parent # NilKey
  /\ RoundTripHolds

----------------------------------------------------------------------------
(* The mapping between entities and property lists.  A Go value is its     *)
(* kind and its content; the name of a property is the list of its parts   *)
(* between underscores.  The fields of a type are visited in one order     *)
(* (Go visits the map tm.DbFields in any order; properties are found by    *)
(* name).  Marshaled fields, tree fields and slices of structs, which go   *)
(* through codecs outside this package, are not part of the model.         *)

V(k, v) == [k |-> k, v |-> v]
NilVal == [k |-> "nil"]

IntKinds == {"int", "int8", "int16", "int32", "int64"}
UintKinds == {"uint", "uint8", "uint16", "uint32", "uint64", "uintptr"}

\* the widths below 32 bits; the model holds no value outside 32 bits
Bits(k) == IF k \in {"int8", "uint8"} THEN 8
           ELSE IF k \in {"int16", "uint16"} THEN 16 ELSE 0

RECURSIVE Pow2(_)
Pow2(n) == IF n = 0 THEN 1 ELSE 2 * Pow2(n - 1)

\* reflect.Value.OverflowInt, OverflowUint
OverflowInt(k, x) ==
  Bits(k) # 0 /\ (x < -Pow2(Bits(k) - 1) \/ x >= Pow2(Bits(k) - 1))
OverflowUint(k, x) == Bits(k) # 0 /\ x >= Pow2(Bits(k))

\* the Go conversions intN(x) and uintN(x)
ConvInt(k, x) ==
  IF Bits(k) = 0 THEN x
  ELSE ((x + Pow2(Bits(k) - 1)) % Pow2(Bits(k))) - Pow2(Bits(k) - 1)
ConvUint(k, x) == IF Bits(k) = 0 THEN x ELSE x % Pow2(Bits(k))

\* types: reflect.Type
ScalarT(k) == [k |-> k]
SliceT(elem) == [k |-> "slice", elem |-> elem]
MapT(key, elem) == [k |-> "map", key |-> key, elem |-> elem]
StructT(fields) == [k |-> "struct", fields |-> fields]
byteArrTyp == SliceT(ScalarT("uint8"))

\* reflect.Value.String: the text of a string, a description of any other
StringOf(val) ==
  IF val.k = "string" THEN val.v ELSE "<" \o val.k \o " Value>"

Property(name, val, noIndex, multiple) ==
  [Name |-> name, Value |-> val, NoIndex |-> noIndex, Multiple |-> multiple]

\* the result of a step that can panic
Done(v) == [panic |-> FALSE, v |-> v]
Panic == [panic |-> TRUE, v |-> NilVal]

\* reflect.Zero(t)
RECURSIVE ZeroOf(_)
ZeroOf(t) ==
  CASE t.k = "string" -> V("string", "")
    [] t.k = "bool" -> V("bool", FALSE)
    [] t.k = "slice" -> V("slice", <<>>)
    [] t.k = "map" -> V("map", <<>>)
    [] t.k = "interface" -> NilVal
    [] t.k = "struct" ->
         V("struct",
           [n \in {t.fields[i].Name : i \in DOMAIN t.fields} |->
              ZeroOf((CHOOSE sf \in {t.fields[i] : i \in DOMAIN t.fields} :
                        sf.Name = n).Type)])
    [] OTHER -> V(t.k, 0)

\* val has a length and it is 0, or val is the zero value of elemT
IsEmptyVal(val, elemT) ==
  CASE val.k \in {"slice", "string"} -> Len(val.v) = 0
    [] val.k = "map" -> DOMAIN val.v = {}
    [] OTHER -> val = ZeroOf(elemT)

FvcHolds(c, val, elemT) ==
  CASE c = ALWAYS_FVC -> TRUE
    [] c = NOT_ALWAYS_FVC -> FALSE
    [] c = EMPTY_FVC -> IsEmptyVal(val, elemT)
    [] c = NOT_EMPTY_FVC -> ~IsEmptyVal(val, elemT)
    [] OTHER -> TRUE

\* fvc: what is "s" (store) or "i" (index)
fvc(what, val, fm) ==
  LET fvcs == IF what = "s" THEN fm.Store ELSE fm.Index
      elemT == IF fm.ReflectType.k = "slice" THEN fm.ReflectType.elem
               ELSE fm.ReflectType
  IN IF what = "i" /\ val.k = "string" /\ Len(val.v) > 500 THEN FALSE
     ELSE \A i \in DOMAIN fvcs : FvcHolds(fvcs[i], val, elemT)

\* addToPropList for a value that is no slice: numbers are stored as int64
StoredValue(val) ==
  CASE val.k \in IntKinds -> V("int64", val.v)
    [] val.k \in UintKinds -> V("int64", val.v)
    [] val.k = "string" -> V("string", val.v)
    [] val.k = "bool" -> V("bool", val.v)
    [] OTHER -> val

AddOne(name, val, indexesOnly, isSlice, fm) ==
  IF ~indexesOnly \/ fvc("i", StoredValue(val), fm)
  THEN <<Property(name, StoredValue(val),
                  ~fvc("i", StoredValue(val), fm), isSlice)>>
  ELSE <<>>

RECURSIVE AddEach(_, _, _, _, _)
AddEach(name, vals, indexesOnly, fm, i) ==
  IF i > Len(vals) THEN <<>>
  ELSE AddOne(name, vals[i], indexesOnly, TRUE, fm)
         \o AddEach(name, vals, indexesOnly, fm, i + 1)

\* fvValid: the field value was passed with val; a slice is added element
\* by element
addToPropList(name, val, indexesOnly, fvValid, isSlice, fm) ==
  IF fvValid /\ val.k = "slice"
  THEN AddEach(name, val.v, indexesOnly, fm, 1)
  ELSE AddOne(name, val, indexesOnly, isSlice, fm)

\* the keys of a map or the names of the DbFields of a type, as a list
RECURSIVE ListOf(_)
ListOf(S) ==
  IF S = {} THEN <<>>
  ELSE LET x == CHOOSE y \in S : TRUE IN <<x>> \o ListOf(S \ {x})

RECURSIVE FromMap(_, _, _, _, _)
FromMap(name, fr, mkeys, indexesOnly, fm) ==
  IF mkeys = <<>> THEN <<>>
  ELSE AddOne(name \o <<"k">>, Head(mkeys), indexesOnly, TRUE, fm)
         \o AddOne(name \o <<"v">>, fr.v[Head(mkeys)], indexesOnly, TRUE, fm)
         \o FromMap(name, fr, Tail(mkeys), indexesOnly, fm)

\* the TypeMeta of a struct type with fields
MetaOf(fields) == addStructMetaFromType(fields, NewTypeMeta, 1).tm

RECURSIVE FromStruct(_, _, _, _, _)
FromStruct(fr, tm2, names, indexesOnly, fm) ==
  IF names = <<>> THEN <<>>
  ELSE AddOne(<<fm.DbName, tm2.DbFields[Head(names)].DbName>>,
              fr.v[Head(names)], indexesOnly, FALSE, fm)
         \o FromStruct(fr, tm2, Tail(names), indexesOnly, fm)

ormFromIntfStruc(indexesOnly, fr, fm) ==
  CASE fm.ReflectType.k = "map" ->
         FromMap(<<fm.DbName>>, fr, ListOf(DOMAIN fr.v), indexesOnly, fm)
    [] fm.ReflectType.k = "struct" ->
         FromStruct(fr, MetaOf(fm.ReflectType.fields),
                    ListOf(DOMAIN MetaOf(fm.ReflectType.fields).DbFields),
                    indexesOnly, fm)
    [] OTHER -> <<>>

RECURSIVE FromExpando(_, _, _, _)
FromExpando(fv, mkeys, indexesOnly, fm) ==
  IF mkeys = <<>> THEN <<>>
  ELSE AddOne(<<fm.DbName, StringOf(Head(mkeys))>>, fv.v[Head(mkeys)],
              indexesOnly, FALSE, fm)
         \o FromExpando(fv, Tail(mkeys), indexesOnly, fm)

\* the properties of one field
FromField(fv, fm, indexesOnly) ==
  IF ~fvc("s", fv, fm) THEN <<>>
  ELSE CASE fm.Type = REGULAR_FTYPE ->
              addToPropList(<<fm.DbName>>, fv, indexesOnly, TRUE, FALSE, fm)
         [] fm.Type = STRUC_FTYPE -> ormFromIntfStruc(indexesOnly, fv, fm)
         [] fm.Type = EXPANDO_FTYPE ->
              FromExpando(fv, ListOf(DOMAIN fv.v), indexesOnly, fm)
         [] OTHER -> <<>>

RECURSIVE FromFields(_, _, _, _)
FromFields(d, m, names, indexesOnly) ==
  IF names = <<>> THEN <<>>
  ELSE FromField(d[Head(names)], m.DbFields[Head(names)], indexesOnly)
         \o FromFields(d, m, Tail(names), indexesOnly)

\* OrmFromIntf(d, m, indexesOnly) for an entity d of a type with TypeMeta m:
\* the properties appended to the list
OrmFromIntf(d, m, indexesOnly) ==
  FromFields(d, m, ListOf(DOMAIN m.DbFields), indexesOnly)

\* ormSetVal(fv, val) for a field of type t: the value the field is set to
ormSetVal(t, val) ==
  CASE t.k \in IntKinds ->
         IF val.k \notin IntKinds \/ OverflowInt(t.k, val.v) THEN Panic
         ELSE Done(V(t.k, val.v))
    [] t.k \in UintKinds ->
         IF val.k \notin UintKinds \/ OverflowUint(t.k, val.v) THEN Panic
         ELSE Done(V(t.k, val.v))
    [] t.k = "string" -> Done(V("string", StringOf(val)))
    [] t.k = "bool" -> IF val.k # "bool" THEN Panic ELSE Done(val)
    [] OTHER -> IF t.k # "interface" /\ val.k # t.k THEN Panic ELSE Done(val)

\* ormCoerce(val, rk): conversions without a check of the range
ormCoerce(val, rk) ==
  CASE rk \in IntKinds ->
         IF val.k \notin IntKinds THEN Panic
         ELSE Done(V(rk, ConvInt(rk, val.v)))
    [] rk \in UintKinds ->
         IF val.k \notin UintKinds THEN Panic
         ELSE Done(V(rk, ConvUint(rk, val.v)))
    [] rk = "string" -> Done(V("string", StringOf(val)))
    [] rk = "bool" -> IF val.k # "bool" THEN Panic ELSE Done(val)
    [] OTHER -> Done(val)

\* the properties of the list with the name
Named(m, key) == SelectSeq(m, LAMBDA p : p.Name = key)

\* ormGetSetVal(m, key, rV) as OrmToIntf uses it, for a field rV of type t
\* holding cur.  A field that is no slice is set from the first property of
\* the name.  For a slice the elements are appended to the local rV, which
\* the callers in OrmToIntf drop: the field keeps what it held.
ormGetSetVal(m, key, t, cur) ==
  IF t # byteArrTyp /\ t.k = "slice"
  THEN IF \E i \in DOMAIN Named(m, key) :
            ormSetVal(t.elem, Named(m, key)[i].Value).panic
       THEN Panic ELSE Done(cur)
  ELSE IF Named(m, key) = <<>> THEN Done(cur)
  ELSE ormSetVal(t, Named(m, key)[1].Value)

\* the pairs of the properties name_k, name_v, in the order of the list
RECURSIVE MapPairs(_, _, _, _, _)
MapPairs(m, name, i, mykey, mymap) ==
  IF i > Len(m) THEN mymap
  ELSE IF m[i].Name = name \o <<"k">>
    THEN MapPairs(m, name, i + 1, m[i].Value, mymap)
  ELSE IF m[i].Name = name \o <<"v">>
    THEN MapPairs(m, name, i + 1, NilVal,
                  [x \in DOMAIN mymap \cup {mykey} |->
                     IF x = mykey THEN m[i].Value ELSE mymap[x]])
  ELSE MapPairs(m, name, i + 1, mykey, mymap)

\* val.SetMapIndex(k9c, v9c) for every pair of mymap
CoercedMap(mymap, t) ==
  IF \E x \in DOMAIN mymap :
       ormCoerce(x, t.key.k).panic \/ ormCoerce(mymap[x], t.elem.k).panic
  THEN Panic
  ELSE Done(V("map",
              [y \in {ormCoerce(x, t.key.k).v : x \in DOMAIN mymap} |->
                 ormCoerce(mymap[CHOOSE x \in DOMAIN mymap :
                                   ormCoerce(x, t.key.k).v = y],
                           t.elem.k).v]))

RECURSIVE ToStruct(_, _, _, _, _)
ToStruct(m, fm, tm2, names, cur) ==
  IF names = <<>> THEN Done(cur)
  ELSE LET r == ormGetSetVal(
                  m, <<fm.DbName, tm2.DbFields[Head(names)].DbName>>,
                  tm2.DbFields[Head(names)].ReflectType, cur.v[Head(names)])
       IN IF r.panic THEN Panic
          ELSE ToStruct(m, fm, tm2, Tail(names),
                        [cur EXCEPT !.v[Head(names)] = r.v])

ormToIntfStruc(m, fm, cur) ==
  CASE fm.ReflectType.k = "map" ->
         IF DOMAIN MapPairs(m, <<fm.DbName>>, 1, NilVal, <<>>) = {}
         THEN Done(cur)
         ELSE CoercedMap(MapPairs(m, <<fm.DbName>>, 1, NilVal, <<>>),
                         fm.ReflectType)
    [] fm.ReflectType.k = "struct" ->
         ToStruct(m, fm, MetaOf(fm.ReflectType.fields),
                  ListOf(DOMAIN MetaOf(fm.ReflectType.fields).DbFields), cur)
    [] OTHER -> Done(cur)

\* the properties whose name starts with the name of the field and an
\* underscore, as a map from the rest of the name to the value
RECURSIVE JoinName(_)
JoinName(parts) ==
  IF Len(parts) = 1 THEN parts[1]
  ELSE parts[1] \o "_" \o JoinName(Tail(parts))

RECURSIVE ExpandoMap(_, _, _, _)
ExpandoMap(m, dbname, i, m2) ==
  IF i > Len(m) THEN m2
  ELSE IF Len(m[i].Name) > 1 /\ m[i].Name[1] = dbname
    THEN ExpandoMap(m, dbname, i + 1,
           [x \in DOMAIN m2 \cup {V("string", JoinName(Tail(m[i].Name)))} |->
              IF x = V("string", JoinName(Tail(m[i].Name)))
              THEN m[i].Value ELSE m2[x]])
  ELSE ExpandoMap(m, dbname, i + 1, m2)

\* one field of OrmToIntf: the value the field holds afterwards
ToField(m, fm, cur) ==
  CASE fm.Type = REGULAR_FTYPE ->
         ormGetSetVal(m, <<fm.DbName>>, fm.ReflectType, cur)
    [] fm.Type = STRUC_FTYPE -> ormToIntfStruc(m, fm, cur)
    [] fm.Type = EXPANDO_FTYPE ->
         Done(V("map", ExpandoMap(m, fm.DbName, 1, <<>>)))
    [] OTHER -> Done(cur)

RECURSIVE ToFields(_, _, _, _)
ToFields(m, tmd, names, d) ==
  IF names = <<>> THEN [panic |-> FALSE, d |-> d]
  ELSE LET r == ToField(m, tmd.DbFields[Head(names)], d[Head(names)])
       IN IF r.panic THEN [panic |-> TRUE, d |-> d]
          ELSE ToFields(m, tmd, Tail(names), [d EXCEPT ![Head(names)] = r.v])

\* OrmToIntf(m, d) for an entity d of a type with TypeMeta tmd
OrmToIntf(m, d, tmd) == ToFields(m, tmd, ListOf(DOMAIN tmd.DbFields), d)

----------------------------------------------------------------------------
(* An entity type with a field of each modelled sort, its entities, and    *)
(* property lists that the backend holds for it.                           *)

OrmField(name, type, tag) ==
  [Name |-> name, Anonymous |-> FALSE, Type |-> type, tag |-> tag]

NestedFields == <<OrmField("P", ScalarT("int8"), <<Tok("dbname", "p")>>)>>

OrmFields ==
  << OrmField("A", ScalarT("int64"), <<Tok("dbname", "a")>>),
     OrmField("B", ScalarT("int8"), <<Tok("dbname", "b")>>),
     OrmField("U", ScalarT("uint8"), <<Tok("dbname", "u")>>),
     OrmField("S", ScalarT("string"), <<Tok("dbname", "s")>>),
     OrmField("L", SliceT(ScalarT("int64")), <<Tok("dbname", "l")>>),
     OrmField("M", MapT(ScalarT("int8"), ScalarT("int8")),
              <<Tok("dbname", "m"), Tok("ftype", "struc")>>),
     OrmField("N", StructT(NestedFields),
              <<Tok("dbname", "n"), Tok("ftype", "struc")>>),
     OrmField("X", MapT(ScalarT("string"), ScalarT("interface")),
              <<Tok("dbname", "x"), Tok("ftype", "expando")>>) >>

OrmMeta == MetaOf(OrmFields)

OneEntry(k, v) == [x \in {k} |-> v]

OrmEntities ==
  [A : {V("int64", 0), V("int64", 1)},
   B : {V("int8", 0), V("int8", -1), V("int8", 127)},
   U : {V("uint8", 0), V("uint8", 200)},
   S : {V("string", ""), V("string", "s")},
   L : {V("slice", <<>>), V("slice", <<V("int64", 1)>>),
        V("slice", <<V("int64", 1), V("int64", 2)>>)},
   M : {V("map", <<>>), V("map", OneEntry(V("int8", 1), V("int8", 2)))},
   N : {V("struct", [P |-> V("int8", 0)]), V("struct", [P |-> V("int8", 5)])},
   X : {V("map", <<>>),
        V("map", OneEntry(V("string", "a"), V("int64", 1))),
        V("map", OneEntry(V("string", "a"), V("int", 1)))}]

\* new(T)
FreshEntity == ZeroOf(StructT(OrmFields)).v

\* the numbers the backend holds are int64
StoredInts == {-129, -128, -1, 0, 127, 128, 255, 256}

ScalarNames == {"a", "b", "u"}

StoredLists ==
  {<<Property(<<n>>, V("int64", x), FALSE, FALSE)>> :
     n \in ScalarNames, x \in StoredInts}
  \cup {<<Property(<<"m", "k">>, V("int64", x), FALSE, TRUE),
          Property(<<"m", "v">>, V("int64", y), FALSE, TRUE)>> :
          x \in StoredInts, y \in {1, 128}}

InitOrm ==
  /\ oent \in OrmEntities
  /\ oprops = <<>>
  /\ osrc = "none"
  /\ oout = [op |-> "none"]
  /\ IdleButOrm

\* OrmFromIntf(d, &m, indexesOnly) with an empty list m
DoOrmFromIntf ==
  \E indexesOnly \in BOOLEAN :
    /\ osrc = "none"
    /\ oprops' = OrmFromIntf(oent, OrmMeta, indexesOnly)
    /\ osrc' = IF indexesOnly THEN "OrmFromIntf(indexes)" ELSE "OrmFromIntf"
    /\ UNCHANGED <<oent, oout>>
    /\ UNCHANGED notOrm

\* the backend returns a property list that another program wrote
DoStored ==
  \E m \in StoredLists :
    /\ osrc = "none"
    /\ oent = FreshEntity
    /\ oprops' = m
    /\ osrc' = "backend"
    /\ UNCHANGED <<oent, oout>>
    /\ UNCHANGED notOrm

\* OrmToIntf(&m, d) with a fresh entity d
DoOrmToIntf ==
  /\ osrc # "none"
  /\ oout.op = "none"
  /\ oout' = [op |-> "OrmToIntf",
              panic |-> OrmToIntf(oprops, FreshEntity, OrmMeta).panic,
              d |-> OrmToIntf(oprops, FreshEntity, OrmMeta).d]
  /\ UNCHANGED <<oent, oprops, osrc>>
  /\ UNCHANGED notOrm

NextOrm == DoOrmFromIntf \/ DoStored \/ DoOrmToIntf

SpecOrm == InitOrm /\ [][NextOrm]_vars

----------------------------------------------------------------------------
(* Claims about the mapping between entities and property lists. *)

OrmFieldNames == DOMAIN OrmMeta.DbFields

\* C15: OrmToIntf applied to the property list that OrmFromIntf(e) made
\* (indexesOnly = false), into a fresh value of the type, reproduces every
\* field of e whose store predicate is true.
C15_OrmRoundTrip ==
  osrc = "OrmFromIntf" /\ oout.op = "OrmToIntf" =>
    /\ ~oout.panic
    /\ \A f \in OrmFieldNames :
         fvc("s", oent[f], OrmMeta.DbFields[f]) => oout.d[f] = oent[f]

\* the numbers a field of kind k can hold
Representable(k, x) ==
  CASE k = "int8" -> x \in -128..127
    [] k = "uint8" -> x \in 0..255
    [] OTHER -> TRUE

\* the field with the db name
FieldOfDbName(n) == CHOOSE f \in OrmFieldNames : OrmMeta.DbFields[f].DbName = n

KindOfDbName(n) == OrmMeta.DbFields[FieldOfDbName(n)].ReflectType.k

\* C16: on read, a stored number that the destination field can hold, in
\* its exact width and signedness, is assigned to the field with that value;
\* a stored number that it cannot hold causes a panic; no field is set to a
\* truncated or wrapped value.
C16_NumericCoercionOnRead ==
  osrc = "backend" /\ oout.op = "OrmToIntf" =>
    /\ Len(oprops) = 1 =>
         IF Representable(KindOfDbName(oprops[1].Name[1]), oprops[1].Value.v)
         THEN /\ ~oout.panic
              /\ oout.d[FieldOfDbName(oprops[1].Name[1])]
                   = V(KindOfDbName(oprops[1].Name[1]), oprops[1].Value.v)
         ELSE oout.panic
    /\ Len(oprops) = 2 =>
         IF /\ Representable("int8", oprops[1].Value.v)
            /\ Representable("int8", oprops[2].Value.v)
         THEN /\ ~oout.panic
              /\ oout.d.M = V("map", OneEntry(V("int8", oprops[1].Value.v),
                                               V("int8", oprops[2].Value.v)))
         ELSE oout.panic

----------------------------------------------------------------------------
(* IsNotFoundError on errors of every shape. *)

MaxMultiLen == 2

\* errors that are no Multi: nil, a not-found error, another error, and a
\* not-found error wrapped by zerror.OnErrorf
LeafErrors == {Nil, NotFound("ds"), Other("ds"), Rich(NotFound("ds"))}

MultisOf(E) == {Multi(es) : es \in UNION {[1..n -> E] : n \in 0..MaxMultiLen}}

\* the errors, with Multis nested twice
Errors == LeafErrors \cup MultisOf(LeafErrors \cup MultisOf(LeafErrors))

InitErr ==
  /\ ierr \in Errors
  /\ iret = [op |-> "none"]
  /\ IdleButErr

DoIsNotFoundError ==
  /\ iret.op = "none"
  /\ iret' = [op |-> "IsNotFoundError", b |-> IsNotFoundError(ierr)]
  /\ UNCHANGED ierr
  /\ UNCHANGED notErr

\* the caller goes on to the next error
DoNextError ==
  /\ iret.op # "none"
  /\ ierr' \in LeafErrors \cup MultisOf(LeafErrors)
  /\ iret' = [op |-> "none"]
  /\ UNCHANGED notErr

NextErr == DoIsNotFoundError \/ DoNextError

SpecErr == InitErr /\ [][NextErr]_vars

\* the errors of a tree of Multis that are no Multi
RECURSIVE Leaves(_)
Leaves(err) ==
  IF err.k = "multi"
  THEN UNION {Leaves(err.errs[i]) : i \in Idx(err.errs)}
  ELSE {err}

\* a Multi without elements is in the tree
RECURSIVE HasEmptyMulti(_)
HasEmptyMulti(err) ==
  /\ err.k = "multi"
  /\ \/ Len(err.errs) = 0
     \/ \E i \in Idx(err.errs) : HasEmptyMulti(err.errs[i])

\* C20: IsNotFoundError(err) is true exactly when err is an
\* EntityNotFoundError or a Multi that is not empty and whose elements all
\* satisfy IsNotFoundError, recursively; it is false for nil, for an empty
\* Multi, and for a Multi that holds nil or an error of another kind.
C20_IsNotFoundError ==
  iret.op = "IsNotFoundError" =>
    (iret.b <=> /\ ~HasEmptyMulti(ierr)
                /\ \A e \in Leaves(ierr) : e.k = "notfound")

\* IsNotFoundError has said yes to a Multi of Multis, and no to a Multi
\* with a nil element
C20_Witness ==
  /\ iret.op = "IsNotFoundError"
  /\ ierr.k = "multi" /\ Len(ierr.errs) = 2
  /\ ierr.errs[1].k = "multi" /\ ierr.errs[1].errs = <<NotFound("ds")>>
  /\ \/ iret.b /\ ierr.errs[2] = NotFound("ds")
     \/ ~iret.b /\ ierr.errs[2] = Nil

----------------------------------------------------------------------------
(* LoadOne that may create. *)

\* the last call was LoadOne with maybeCreate for a complete key that the
\* backend of a datastore-enabled type does not hold, and nothing failed
\* underneath it
MaybeCreateOfAbsent ==
  /\ last.op = "LoadOne"
  /\ last.maybeCreate
  /\ last.entity.id # 0
  /\ tm.ds
  /\ IsNotFoundError(Base(last.loadErr))

\* C19: LoadOne with maybeCreate=true, for an entity whose complete key is
\* absent from the backend (or cached as a negative), calls Save for that
\* entity and returns what Save returns instead of a not-found error.
C19_MaybeCreateSaves ==
  MaybeCreateOfAbsent =>
    /\ last.saved
    /\ ~IsNotFoundError(Base(last.err))

----------------------------------------------------------------------------
(* Hooks that fail in a batch. *)

\* the hook ev (presave, postsave, postload) of the entity with key k
\* returned an error, or returned nil, in the last call
HookFailedOn(ev, k) ==
  \E h \in Idx(log) : log[h].ev = ev /\ log[h].key = k /\ log[h].arg = "error"

HookRanOn(ev, k) ==
  \E h \in Idx(log) : log[h].ev = ev /\ log[h].key = k /\ log[h].arg = "ok"

HookFailed(ev) == \E k \in Keys : HookFailedOn(ev, k)

\* the backend returned the entity of key k to the last Gets
BackendGave(k) ==
  \E h \in Idx(log) : log[h].ev = "dsget" /\ log[h].key = k /\ log[h].arg = "ok"

\* the entities of a Save whose PreSaveHook did not fail are written
PreSaveSparesOthers ==
  last.op = "Save" /\ tm.ds /\ HookFailed("presave") =>
    \A i \in Idx(last.keys) :
      ~HookFailedOn("presave", last.keys[i]) =>
        /\ store[last.keys[i]] = last.ents[i].val
        /\ HookRanOn("postsave", last.keys[i])

\* the entities of a Save whose PostSaveHook did not fail are written and
\* their PostSaveHook runs
PostSaveSparesOthers ==
  last.op = "Save" /\ tm.ds /\ HookFailed("postsave") =>
    \A i \in Idx(last.keys) :
      ~HookFailedOn("postsave", last.keys[i]) =>
        /\ store[last.keys[i]] = last.ents[i].val
        /\ HookRanOn("postsave", last.keys[i])

\* the entities of a Gets whose PostLoadHook did not fail are loaded and
\* their PostLoadHook runs
PostLoadSparesOthers ==
  last.op = "Gets" /\ HookFailed("postload") =>
    \A i \in Idx(last.keys) :
      ~HookFailedOn("postload", last.keys[i]) /\ BackendGave(last.keys[i]) =>
        /\ last.dst[i].val = store[last.keys[i]]
        /\ HookRanOn("postload", last.keys[i])

\* C18: when the PreSaveHook, PostSaveHook or PostLoadHook of one entity of
\* a batch returns an error, the other entities of the same Puts or Gets
\* are still written to or loaded from the backend, and their hooks run.
C18_HookErrorAbortsOneEntityOnly ==
  /\ PreSaveSparesOthers
  /\ PostSaveSparesOthers
  /\ PostLoadSparesOthers

----------------------------------------------------------------------------
(* The not-found error as the caller gets it. *)

\* the last call was a read that failed, no collaborator failed under it,
\* and every key it asked for is absent
FailedOnAbsentKeysOnly ==
  /\ nfaults = 0
  /\ \/ last.op \in {"Get", "Gets"}
     \/ last.op = "LoadOne" /\ ~last.maybeCreate /\ last.entity.id # 0
  /\ last.err # Nil
  /\ IsNotFoundError(Base(last.err))

\* C21: when Get, Gets, Load or LoadOne (maybeCreate=false) fails only
\* because the requested keys are absent, IsNotFoundError accepts the error
\* handed back to the caller; Get hands back the error of its one key.
C21_NotFoundIsRecognised ==
  FailedOnAbsentKeysOnly =>
    /\ IsNotFoundError(last.err)
    /\ last.op = "Get" => Base(last.err).k = "notfound"

----------------------------------------------------------------------------
(* An error of the shared cache during Gets. *)

\* sharedCache.CacheGet returned an error in the last call
SharedCacheGetFailed ==
  \E h \in Idx(log) :
    log[h].ev = "probe" /\ log[h].tier = "mc" /\ log[h].arg = "error"

\* C22: if the shared cache's CacheGet returns an error during Gets with
\* useCache=true, Gets returns that error; it does not take the keys for
\* cache misses, does not call DatastoreGet for them, and writes nothing to
\* any cache tier.
C22_SharedCacheErrorPropagates ==
  last.op = "Gets" /\ last.useCache /\ SharedCacheGetFailed =>
    /\ Base(last.err) = Other("sharedCache.CacheGet")
    /\ ~last.dsCalled
    /\ Stores = pre

----------------------------------------------------------------------------
(* The defaults of the cache and datastore flags. *)

\* the _struct tag of type t has the token flag, bare or with a true value
NamedTrue(t, flag) ==
  \E i \in Idx(t.info) :
    /\ t.info[i].name = flag
    /\ ~t.info[i].eq \/ bValue(t.info[i].val)

\* the descriptor m of type t has no flag set that the tag does not set
FlagsFromTagOnly(t, m) ==
  /\ m.UseRequestCache => NamedTrue(t, "rc")
  /\ m.UseInstanceCache => NamedTrue(t, "pc")
  /\ m.UseSharedCache => NamedTrue(t, "mc")
  /\ m.UseDatastore => NamedTrue(t, "ds")

\* C23: a type whose _struct tag names none of rc, pc, mc and ds has the
\* request-cache, process-cache, shared-cache and datastore flags all false;
\* each flag is true only when its token is present bare or with a true
\* value.
C23_FlagsDefaultFalse ==
  \A p \in Procs :
    GsmReturned(p) /\ ret[p].err = Nil /\ ret[p].rt \in StructTypes =>
      FlagsFromTagOnly(ret[p].rt, ret[p].tm)

----------------------------------------------------------------------------
(* combinationgen: the combinations of a slice of slices. *)

\* number of choice slices, and of choices in one slice
MaxSlices == 3
MaxChoices == 3
\* calls of Next after the one that returned io.EOF
MaxAfterEOF == 2

EOF == Other("io.EOF")

\* the choice slices: slice i offers the choices 1..Len(combo[i]); indexes
\* and counters count from 0 as in the source
Combos ==
  UNION {[1..n -> {[j \in 1..c |-> j] : c \in 1..MaxChoices}] :
           n \in 1..MaxSlices}

\* New: a generator x on the caller's vprops, counters at 0
TNew(cmb) ==
  [vprops |-> [i \in Idx(cmb) |-> 0], ictr |-> 0,
   ctr |-> [i \in Idx(cmb) |-> 0], err |-> Nil]

TFirst(cmb, x) ==
  [x EXCEPT !.vprops = [i \in Idx(cmb) |-> cmb[i][1]], !.ictr = 0]

upd(cmb, x) ==
  [x EXCEPT !.vprops[x.ictr + 1] = cmb[x.ictr + 1][x.ctr[x.ictr + 1] + 1]]

\* mutation: the counter is left where it is
upd2Keep(cmb, x, comboIndx) == upd(cmb, x)

upd2(cmb, x, comboIndx) ==
  upd(cmb, [x EXCEPT !.ctr[x.ictr + 1] = comboIndx])

\* the inner loop of Next: "move back and continue"
RECURSIVE NextBack(_, _)
NextBack(cmb, x) ==
  LET y == upd2(cmb, x, 0)
      z == [y EXCEPT !.ictr = @ - 1]
  IN IF z.ictr < 0 THEN [z EXCEPT !.err = EOF]
     ELSE IF z.ctr[z.ictr + 1] = Len(cmb[z.ictr + 1]) - 1 THEN NextBack(cmb, z)
     ELSE upd(cmb, [z EXCEPT !.ctr[z.ictr + 1] = @ + 1])

\* the outer loop of Next
RECURSIVE NextLoop(_, _)
NextLoop(cmb, x) ==
  IF x.ictr < Len(x.vprops) - 1
    THEN NextLoop(cmb, upd2(cmb, [x EXCEPT !.ictr = @ + 1], 0))
  ELSE IF x.ctr[x.ictr + 1] < Len(cmb[x.ictr + 1]) - 1
    THEN upd(cmb, [x EXCEPT !.ctr[x.ictr + 1] = @ + 1])
  ELSE NextBack(cmb, x)

\* Next: the generator after the call; the call returns its err
TNext(cmb, x) == IF x.err # Nil THEN x ELSE NextLoop(cmb, x)

T == [vprops |-> vprops, ictr |-> ictr, ctr |-> ctr, err |-> xerr]

\* cg, err := New(vprops, combo)
InitGen ==
  /\ combo \in Combos
  /\ vprops = TNew(combo).vprops
  /\ ictr = TNew(combo).ictr
  /\ ctr = TNew(combo).ctr
  /\ xerr = TNew(combo).err
  /\ gout = <<>>
  /\ IdleButGen

Became(x, e) ==
  /\ vprops' = x.vprops
  /\ ictr' = x.ictr
  /\ ctr' = x.ctr
  /\ xerr' = x.err
  /\ gout' = Append(gout, [v |-> x.vprops, err |-> e])
  /\ UNCHANGED combo
  /\ UNCHANGED notGen

\* cg.First(), and the caller reads vprops
DoFirst ==
  /\ gout = <<>>
  /\ Became(TFirst(combo, T), Nil)

\* err = cg.Next(), and the caller reads vprops
DoTNext ==
  /\ gout # <<>>
  /\ IF Len(gout) <= MaxAfterEOF THEN TRUE
     ELSE gout[Len(gout) - MaxAfterEOF].err = Nil
  /\ Became(TNext(combo, T), TNext(combo, T).err)

NextGen == DoFirst \/ DoTNext

SpecGen == InitGen /\ [][NextGen]_vars

RECURSIVE Product(_, _)
\* the number of combinations of the slices i.. of combo
Product(cmb, i) ==
  IF i > Len(cmb) THEN 1 ELSE Len(cmb[i]) * Product(cmb, i + 1)

\* the j-th combination (j from 1) in lexicographic order, the first slice
\* most significant: the digits of j - 1 in the mixed radix of the lengths
Nth(cmb, j) ==
  [i \in Idx(cmb) |->
     cmb[i][(((j - 1) \div Product(cmb, i + 1)) % Len(cmb[i])) + 1]]

\* C24: for every non-empty list of non-empty choice slices, First and then
\* Next called until it returns an error leave in vprops every combination
\* of the cartesian product exactly once, in lexicographic order with the
\* last slice varying fastest; Next returns io.EOF right after the last
\* combination and on every later call.
C24_CombinationsInOrder ==
  \A j \in Idx(gout) :
    IF j <= Product(combo, 1)
      THEN gout[j].err = Nil /\ gout[j].v = Nth(combo, j)
    ELSE gout[j].err = EOF

\* three slices, one of them with a single choice, have been run through and
\* Next has returned io.EOF twice
C24_Witness ==
  /\ Len(combo) = 3
  /\ Len(combo[2]) = 1
  /\ Product(combo, 1) = 9
  /\ Len(gout) = Product(combo, 1) + 2
  /\ gout[Len(gout)].err = EOF
  /\ gout[Len(gout) - 1].err = EOF
  /\ gout[Product(combo, 1)].v = <<3, 1, 3>>

----------------------------------------------------------------------------
(* tree: Int64Node and Int64Codec. *)

\* children of one node, and the largest value of a node that is no marker
MaxKids == 2
MaxTreeVal == 2

Int64DefDesc == 0 - 2
Int64DefAsc == 0 - 1

Int64Node(v, ch) == [Value |-> v, Children |-> ch]

\* Int64Codec{Desc, Asc}
NewInt64Codec == [Desc |-> Int64DefDesc, Asc |-> Int64DefAsc]

RECURSIVE EncodeChildren(_, _, _)
RECURSIVE EncodeFrom(_, _, _, _)
\* the loop of EncodeChildren from child i on
EncodeFrom(c, n, i, vals) ==
  IF i > Len(n.Children) THEN vals
  ELSE LET n2 == n.Children[i]
       IN EncodeFrom(c, n, i + 1,
                     IF Len(n2.Children) > 0
                       THEN Append(EncodeChildren(
                                     c, n2, Append(Append(vals, n2.Value),
                                                   c.Desc)),
                                   c.Asc)
                     ELSE Append(vals, n2.Value))

EncodeChildren(c, n, vals) == EncodeFrom(c, n, 1, vals)

\* a node is pointed to by its path from the root: the positions of the
\* children to go through
RECURSIVE NodeAt(_, _)
NodeAt(n, path) ==
  IF path = <<>> THEN n ELSE NodeAt(n.Children[Head(path)], Tail(path))

\* mutation: a new node is always made a child of the root
AppendChildToRoot(n, path, nx) == [n EXCEPT !.Children = Append(@, nx)]

\* ny.Children = append(ny.Children, nx) for the node ny at path
RECURSIVE AppendChild(_, _, _)
AppendChild(n, path, nx) ==
  IF path = <<>> THEN [n EXCEPT !.Children = Append(@, nx)]
  ELSE [n EXCEPT !.Children[Head(path)] = AppendChild(@, Tail(path), nx)]

\* the state of the loop of DecodeChildren: the tree so far, the stack, nx
\* and justDesc; panic when the stack is indexed or cut while it is empty
DecodeStart(n) ==
  [n |-> n, stack |-> <<<<>>>>, justDesc |-> FALSE, nx |-> <<>>,
   panic |-> FALSE]

DecodeValue(d, v) ==
  LET stack == IF d.justDesc THEN Append(d.stack, d.nx) ELSE d.stack
  IN IF stack = <<>> THEN [d EXCEPT !.panic = TRUE]
     ELSE LET ny == stack[Len(stack)]
          IN [d EXCEPT
                !.stack = stack,
                !.justDesc = FALSE,
                !.nx = Append(ny, Len(NodeAt(d.n, ny).Children) + 1),
                !.n = AppendChild(d.n, ny, Int64Node(v, <<>>))]

DecodeOne(c, d, v) ==
  IF v = c.Desc THEN [d EXCEPT !.justDesc = TRUE]
  ELSE IF v = c.Asc
    THEN (IF d.justDesc THEN [d EXCEPT !.justDesc = FALSE]
          ELSE IF d.stack = <<>> THEN [d EXCEPT !.panic = TRUE]
          ELSE [d EXCEPT !.stack = SubSeq(@, 1, Len(@) - 1)])
  ELSE DecodeValue(d, v)

RECURSIVE DecodeLoop(_, _, _, _)
DecodeLoop(c, d, vals, i) ==
  IF i > Len(vals) \/ d.panic THEN d
  ELSE DecodeLoop(c, DecodeOne(c, d, vals[i]), vals, i + 1)

\* DecodeChildren(n, vals): the tree below n afterwards, or a panic
DecodeChildren(c, n, vals) ==
  [n |-> DecodeLoop(c, DecodeStart(n), vals, 1).n,
   panic |-> DecodeLoop(c, DecodeStart(n), vals, 1).panic]

TreeVals == {Int64DefDesc, Int64DefAsc} \cup 1..MaxTreeVal

KidsOf(N) == UNION {[1..k -> N] : k \in 0..MaxKids}

Leaves64 == {Int64Node(v, <<>>) : v \in TreeVals}

\* nodes with children that are leaves
Inner64 == {Int64Node(v, ch) : v \in TreeVals, ch \in KidsOf(Leaves64)}

\* the trees: a root with children, grandchildren and great-grandchildren
Trees == {Int64Node(v, ch) : v \in {0, 1}, ch \in KidsOf(Inner64)}

InitTree ==
  /\ troot \in Trees
  /\ tvals = <<>>
  /\ tdec = [n |-> Int64Node(0, <<>>), panic |-> FALSE]
  /\ tvals2 = <<>>
  /\ tpc = "tree"
  /\ IdleButTree

\* itrSlice := itrCodec.EncodeChildren(itrVal, nil)
DoEncodeChildren ==
  /\ tpc = "tree"
  /\ tvals' = EncodeChildren(NewInt64Codec, troot, <<>>)
  /\ tpc' = "encoded"
  /\ UNCHANGED <<troot, tdec, tvals2>>
  /\ UNCHANGED notTree

\* itr := new(tree.Int64Node); itrCodec.DecodeChildren(itr, fsrc)
DoDecodeChildren ==
  /\ tpc = "encoded"
  /\ tdec' = DecodeChildren(NewInt64Codec, Int64Node(0, <<>>), tvals)
  /\ tpc' = "decoded"
  /\ UNCHANGED <<troot, tvals, tvals2>>
  /\ UNCHANGED notTree

\* EncodeChildren of the decoded tree
DoEncodeDecoded ==
  /\ tpc = "decoded"
  /\ ~tdec.panic
  /\ tvals2' = EncodeChildren(NewInt64Codec, tdec.n, <<>>)
  /\ tpc' = "reencoded"
  /\ UNCHANGED <<troot, tvals, tdec>>
  /\ UNCHANGED notTree

NextTree == DoEncodeChildren \/ DoDecodeChildren \/ DoEncodeDecoded

SpecTree == InitTree /\ [][NextTree]_vars

RECURSIVE ValuesOf(_)
\* the values of the nodes below n
ValuesOf(n) ==
  UNION {{n.Children[i].Value} \cup ValuesOf(n.Children[i]) :
           i \in Idx(n.Children)}

\* no node below the root holds one of the two markers of the codec
NoMarkerValue ==
  ValuesOf(troot) \cap {NewInt64Codec.Desc, NewInt64Codec.Asc} = {}

\* C25: the tree codec round-trips: for every tree (any depth, any node
\* values), DecodeChildren of the slice EncodeChildren made rebuilds a tree
\* with the same values and the same parent/child structure, and
\* EncodeChildren of the decoded tree yields the original slice again.
C25_TreeRoundTrip ==
  /\ tpc \in {"decoded", "reencoded"} => ~tdec.panic /\ tdec.n = troot
  /\ tpc = "decoded" => ~tdec.panic
  /\ tpc = "reencoded" => tvals2 = tvals

\* C25, amended: for every tree none of whose nodes below the root holds the
\* codec's Desc or Asc value, DecodeChildren of the encoded slice rebuilds
\* the same children of the root, in values and structure (the value of the
\* root itself is not in the slice), and encoding the decoded tree yields
\* the same slice.
C25_TreeRoundTripWithoutMarkers ==
  NoMarkerValue =>
    /\ tpc \in {"decoded", "reencoded"} =>
          ~tdec.panic /\ tdec.n.Children = troot.Children
    /\ tpc = "reencoded" => tvals2 = tvals

\* a tree three levels deep without marker values has gone round
C25_Witness ==
  /\ tpc = "reencoded"
  /\ NoMarkerValue
  /\ Len(troot.Children) = 2
  /\ Len(troot.Children[1].Children) = 2
  /\ Len(tvals) = 6
  /\ tvals2 = tvals

----------------------------------------------------------------------------
(* The order of the steps of Puts. *)

\* the positions in the log of the events named in evs
Pos(evs) == {h \in Idx(log) : log[h].ev \in evs}

Before(A, B) == \A a \in Pos(A), b \in Pos(B) : a < b

\* the events named in evs that went well
Oks(evs) == {h \in Pos(evs) : log[h].arg = "ok"}

\* a PreSaveHook or the serialization of an entity failed
FailedBeforePut ==
  \E h \in Pos({"presave", "orm"}) : log[h].arg = "error"

\* C26: in Puts every PreSaveHook has returned before any entity is
\* serialized, every entity is serialized before DatastorePut is called, and
\* key write-back, PostSaveHooks and cache invalidation happen only after
\* DatastorePut has returned success; if a PreSaveHook or the serialization
\* of an entity fails, DatastorePut is never called and no cache tier is
\* modified.
C26_PutsOrder ==
  last.op = "Save" =>
    /\ Before({"presave"}, {"orm"})
    /\ Before({"presave", "orm"}, {"dsput"})
    /\ Pos({"dsput"}) # {} =>
          /\ Cardinality(Oks({"presave"})) = Len(last.keys)
          /\ Cardinality(Oks({"orm"})) = IF tm.ds THEN Len(last.keys) ELSE 0
    /\ \A h \in Pos({"keyapply", "postsave", "del"}) :
          \E g \in 1..(h - 1) : log[g] = Ev("dsput", "ds", 0, "ok")
    /\ FailedBeforePut =>
          /\ Pos({"dsput", "keyapply", "postsave", "del"}) = {}
          /\ ~last.dsPutOk
          /\ Stores = pre

\* two entities were saved in one call while a cache tier held one of them,
\* and every step ran
C26_Witness ==
  /\ last.op = "Save" /\ Len(last.keys) = 2 /\ last.keys[1] # last.keys[2]
  /\ tm.ds /\ tm.rc
  /\ last.err = Nil /\ last.dsPutOk
  /\ \E k \in Range(last.keys) : pre.rs[Raw(k)] # NoEntry
  /\ Cardinality(Oks({"presave"})) = 2
  /\ Cardinality(Oks({"orm"})) = 2
  /\ Cardinality(Oks({"postsave"})) = 2
  /\ Pos({"del"}) # {}

----------------------------------------------------------------------------
(* QuerySupport: the keys of a backend query, filtered by kind and shape,  *)
(* with the instance cache as a query cache.                               *)

\* keys one query yields, and calls of QuerySupport in one behaviour
MaxQueryKeys == 2
MaxQueryCalls == 2

QueryCacheKeyPfx == "db/db_query_cache::"

\* the registered types: kind K1 with shape S1 (process cache, 30s), kind K1
\* without shape (no process cache), kind K2 (process cache, 10m)
QueryTypes ==
  <<TypeNamed("A"),
    StructType("D", <<Tok("kind", "K1")>>, <<>>),
    StructType("E", <<Tok("kind", "K2"), Bare("pc"), Tok("pcto", "10m")>>,
               <<>>)>>

RECURSIVE Registered(_, _, _, _)
\* StructMetas and StructMetaKinds after GetStructMetaFromType of each type
Registered(types, i, metas, kinds) ==
  IF i > Len(types) THEN [metas |-> metas, kinds |-> kinds]
  ELSE Registered(types, i + 1,
                  GetStructMetaLocked(metas, kinds, types[i]).metas,
                  GetStructMetaLocked(metas, kinds, types[i]).kinds)

QueryRegistry == Registered(QueryTypes, 1, <<>>, <<>>)

\* the keys the backend holds
QueryKeys ==
  {Key("K1", "S1", 1, NilKey), Key("K1", "", 2, NilKey),
   Key("K2", "S1", 3, NilKey)}

\* nextFn: the keys it yields in turn, then io.EOF; errAt is the number of
\* the call that returns another error instead (0: none)
Iterators ==
  UNION {[keys : [1..n -> QueryKeys], errAt : 0..(n + 1)] :
           n \in 0..MaxQueryKeys}

\* the two tests on the kind and the shape of a key
KeepsKey(kind, shape, key) ==
  /\ ~(kind # "" /\ kind # GetInfoFromKey(key, 1, 0).kind)
  /\ ~(shape # "" /\ shape # GetInfoFromKey(key, 1, 0).shape)

Filtered(kind, shape, keys) ==
  SelectSeq(keys, LAMBDA key : KeepsKey(kind, shape, key))

\* what QuerySupport returns and leaves in the cache; calls counts the calls
\* of nextFn, lastqcur is the cursor of the last of them (its number)
QueryResult(res, cur, err, panic, cache, calls) ==
  [res |-> res, lastqcur |-> cur, err |-> OnErrorf(err), panic |-> panic,
   cache |-> cache, calls |-> calls]

\* the loop over nextFn from call j on
RECURSIVE QueryLoop(_, _, _, _, _)
QueryLoop(kind, shape, it, j, res) ==
  IF it.errAt = j THEN [res |-> res, err |-> Other("nextFn"), calls |-> j]
  ELSE IF j > Len(it.keys) THEN [res |-> res, err |-> Nil, calls |-> j]
  ELSE QueryLoop(kind, shape, it, j + 1,
                 IF KeepsKey(kind, shape, it.keys[j])
                   THEN Append(res, it.keys[j]) ELSE res)

\* "Not in query cache. So continue."
QueryBackend(cache, m, qString, kind, shape, l) ==
  IF l.err # Nil
    THEN QueryResult(l.res, l.calls, l.err, FALSE, cache, l.calls)
  ELSE QueryResult(l.res, l.calls, Nil, FALSE,
                   IF m.UseInstanceCache
                     THEN SafePut(cache, QueryCacheKeyPfx \o qString,
                                  [Value |-> l.res,
                                   TTL |-> m.InstanceCacheTimeout])
                   ELSE cache,
                   l.calls)

QueryWithMeta(cache, m, qString, kind, shape, it) ==
  IF m.UseInstanceCache /\ SafeHas(cache, QueryCacheKeyPfx \o qString)
    THEN QueryResult(Filtered(kind, shape,
                              cache[QueryCacheKeyPfx \o qString].Value),
                     0, Nil, FALSE, cache, 0)
  ELSE QueryBackend(cache, m, qString, kind, shape,
                    QueryLoop(kind, shape, it, 1, <<>>))

\* GetLoadedReflectTypeFromKind asserts the type of what StructMetaKinds.Get
\* returned: the assertion panics when no type has the kind key
QuerySupport(reg, cache, qString, kind, shape, it) ==
  IF ~SafeHas(reg.kinds, getStructMetaKindKey(kind, shape))
    THEN QueryResult(<<>>, 0, Nil, TRUE, cache, 0)
  ELSE QueryWithMeta(cache,
                     GetLoadedStructMetaFromKind(reg.metas, reg.kinds, kind,
                                                 shape),
                     qString, kind, shape, it)

QueryStrings == {"q1", "q2"}
QueryKinds == {"", "K1", "K2"}
QueryShapes == {"", "S1"}

NotSeen == [seen |-> FALSE]

InitQuery ==
  /\ qcache = <<>>
  /\ qseen = [q \in QueryStrings |-> NotSeen]
  /\ qlast = [op |-> "none"]
  /\ qcalls = 0
  /\ IdleButQuery

\* r is what the call returns
QueryReturns(qString, kind, shape, it, r) ==
  /\ qcache' = r.cache
  /\ qlast' = [op |-> "QuerySupport", qString |-> qString, kind |-> kind,
               shape |-> shape, it |-> it, res |-> r.res, err |-> r.err,
               panic |-> r.panic, calls |-> r.calls,
               lastqcur |-> r.lastqcur, seen |-> qseen[qString],
               cached |-> SafeHas(qcache, QueryCacheKeyPfx \o qString),
               entry |-> IF SafeHas(qcache, QueryCacheKeyPfx \o qString)
                           THEN qcache[QueryCacheKeyPfx \o qString].Value
                         ELSE <<>>]
  /\ qseen' = IF ~qseen[qString].seen /\ r.err = Nil /\ ~r.panic
                THEN [qseen EXCEPT ![qString] =
                        [seen |-> TRUE, kind |-> kind, shape |-> shape,
                         res |-> r.res]]
              ELSE qseen
  /\ qcalls' = qcalls + 1
  /\ UNCHANGED notQuery

DoQuerySupport ==
  /\ qcalls < MaxQueryCalls
  /\ \E qString \in QueryStrings, kind \in QueryKinds, shape \in QueryShapes,
        it \in Iterators :
       QueryReturns(qString, kind, shape, it,
                    QuerySupport(QueryRegistry, qcache, qString, kind, shape,
                                 it))

\* the instance cache drops an entry whose TTL has run out
DoQueryExpire ==
  /\ qcalls < MaxQueryCalls
  /\ \E ck \in DOMAIN qcache :
       /\ qcache[ck].TTL > 0
       /\ qcache' = [x \in DOMAIN qcache \ {ck} |-> qcache[x]]
  /\ qlast' = [op |-> "expire"]
  /\ UNCHANGED <<qseen, qcalls>>
  /\ UNCHANGED notQuery

NextQuery == DoQuerySupport \/ DoQueryExpire

SpecQuery == InitQuery /\ [][NextQuery]_vars

\* a type is registered for the kind and shape of the last call
QueryRegistered ==
  SafeHas(QueryRegistry.kinds, getStructMetaKindKey(qlast.kind, qlast.shape))

\* ... and it uses the process cache
QueryUsesCache ==
  /\ QueryRegistered
  /\ GetLoadedStructMetaFromKind(QueryRegistry.metas, QueryRegistry.kinds,
                                 qlast.kind, qlast.shape).UseInstanceCache

\* the keys the iterator of the last call yields that have the kind and the
\* shape asked for, in the iterator's order
QueryExpected ==
  SelectSeq(qlast.it.keys,
            LAMBDA key : /\ qlast.kind = "" \/ key.kind = qlast.kind
                         /\ qlast.shape = "" \/ key.shape = qlast.shape)

\* an earlier call with the query string, kind and shape of the last call
\* returned nil
QueryRepeated ==
  /\ qlast.seen.seen
  /\ qlast.seen.kind = qlast.kind
  /\ qlast.seen.shape = qlast.shape

\* C27: QuerySupport returns, in the backend's order, exactly the keys the
\* iterator yields whose kind is the requested kind (when non-empty) and
\* whose shape is the requested shape (when non-empty); for a type with the
\* process cache enabled, a repeated call with the same query string returns
\* the same list from the query cache without invoking the iterator.
C27_QueryFiltersAndCaches ==
  qlast.op = "QuerySupport" =>
    /\ qlast.it.errAt = 0 /\ ~(QueryRepeated /\ QueryUsesCache) =>
          ~qlast.panic /\ qlast.err = Nil /\ qlast.res = QueryExpected
    /\ QueryRepeated /\ QueryUsesCache =>
          qlast.res = qlast.seen.res /\ qlast.calls = 0

\* What QuerySupport does do: for a kind and shape that a type is registered
\* for (the kind is then not empty), a call that finds no entry for its query string
\* in the query cache, or whose type does not use the process cache,
\* returns in the backend's order exactly the keys the iterator yields that
\* have the kind and, when the shape is not empty, the shape; a call for a
\* type with the process cache, made while the cache holds the list that an
\* earlier call with the same query string, kind and shape stored, returns
\* that list without invoking the iterator; a call for a kind and shape no
\* type is registered for panics.
QueryFiltersAndCachesWhenRegistered ==
  qlast.op = "QuerySupport" =>
    /\ QueryRegistered /\ qlast.it.errAt = 0
          /\ ~(QueryUsesCache /\ qlast.cached) =>
          /\ ~qlast.panic /\ qlast.err = Nil
          /\ qlast.res = QueryExpected
          /\ qlast.calls = Len(qlast.it.keys) + 1
    /\ QueryUsesCache /\ QueryRepeated /\ qlast.cached
          /\ qlast.entry = qlast.seen.res =>
          /\ ~qlast.panic /\ qlast.err = Nil
          /\ qlast.res = qlast.seen.res
          /\ qlast.calls = 0
    /\ ~QueryRegistered => qlast.panic

\* a repeated query of a type with the process cache was served from the
\* cache with the two keys the first call had kept, while the iterator now
\* has other keys
QueryServedFromCache ==
  /\ qlast.op = "QuerySupport"
  /\ QueryUsesCache /\ QueryRepeated /\ qlast.cached
  /\ qlast.shape = "S1"
  /\ Len(qlast.res) = 2
  /\ qlast.res = qlast.seen.res
  /\ qlast.calls = 0
  /\ qlast.it.keys # qlast.res

----------------------------------------------------------------------------
(* A Gets(ctx, true, {RaceKey}, dst) and a Puts or a Deletes of RaceKey in   *)
(* two goroutines of one request.  Neither call takes a lock, so the calls   *)
(* that each makes on the caches and on the backend interleave freely; each  *)
(* such call is one step.                                                    *)

\* the key both calls name: the first one
RaceKey == CHOOSE k \in Keys : \A j \in Keys : k <= j

\* the calls of the writer
RaceWrites ==
  {[op |-> "Puts", val |-> v] : v \in Vals} \cup {[op |-> "Deletes", val |-> 0]}

\* the caches as an earlier Gets of RaceKey left them
Warmed(st) ==
  Gets(EmptyStore, EmptyStore, EmptyStore, [o \in Objs |-> Zero], st, TRUE,
       <<RaceKey>>, NoFault)

InitRace ==
  /\ tm \in {t \in TypeMetas : t.ds}
  /\ sharedUp \in BOOLEAN
  /\ store \in [Keys -> {0, 1}]
  /\ \E warm \in BOOLEAN :
       /\ reqStore = IF warm THEN Warmed(store).rs ELSE EmptyStore
       /\ instStore = IF warm THEN Warmed(store).is ELSE EmptyStore
       /\ sharedStore = IF warm THEN Warmed(store).ss ELSE EmptyStore
       /\ heap = IF warm THEN Warmed(store).hp ELSE [o \in Objs |-> Zero]
  /\ last = [op |-> "Init"]
  /\ prev = [op |-> "Init"]
  /\ log = <<>>
  /\ pre = [rs |-> EmptyStore, is |-> EmptyStore, ss |-> EmptyStore]
  /\ nops = 0
  /\ nfaults = 0
  /\ rpc = "start"
  /\ wpc = "start"
  /\ rdg = <<>>
  /\ wop \in RaceWrites
  /\ MetaIdle /\ KeyIdle /\ OrmIdle /\ ErrIdle /\ GenIdle /\ TreeIdle
  /\ QueryIdle

\* what a step of either call leaves alone
RaceFrame ==
  UNCHANGED <<tm, sharedUp, last, prev, log, pre, nops, nfaults, wop,
              metaVars, keyVars, ormVars, errVars, genVars, treeVars,
              queryVars>>

\* the caches after the call r on them
RaceCaches(r, hp) ==
  /\ reqStore' = r.rs
  /\ instStore' = r.is
  /\ sharedStore' = r.ss
  /\ heap' = Gc(r.rs, r.is, hp)

\* Gets, 1655..1686: CacheGet; a hit or a negative ends the call
RaceCacheGet ==
  /\ rpc = "start"
  /\ rpc' = IF CacheGet(reqStore, instStore, sharedStore, heap, <<RaceKey>>,
                        <<Zero>>, NoFault).result[1] = CacheMiss
              THEN "miss" ELSE "done"
  /\ UNCHANGED <<store, reqStore, instStore, sharedStore, heap, wpc, rdg>>
  /\ RaceFrame

\* Gets, 1691: DatastoreGet for the key the caches missed
RaceDatastoreGet ==
  /\ rpc = "miss"
  /\ rdg' = DatastoreGet(store, <<RaceKey>>, NoFault)
  /\ rpc' = "got"
  /\ UNCHANGED <<store, reqStore, instStore, sharedStore, heap, wpc>>
  /\ RaceFrame

\* Gets, 1722: PostLoad of the entity the backend gave, which puts it into
\* the caches
RacePostLoad ==
  /\ rpc = "got"
  /\ rdg.err = Nil
  /\ LET pl == PostLoad(reqStore, instStore, sharedStore, heap, TRUE,
                        <<RaceKey>>, <<[Zero EXCEPT !.val = rdg.vals[1]]>>,
                        NoFault)
     IN RaceCaches(pl, pl.hp)
  /\ rpc' = "done"
  /\ UNCHANGED <<store, wpc, rdg>>
  /\ RaceFrame

\* Gets, 1727..1740: the key the backend did not have is stored as a
\* negative
RaceNegative ==
  /\ rpc = "got"
  /\ rdg.err # Nil
  /\ LET cp == CachePut(reqStore, instStore, sharedStore, heap, <<RaceKey>>,
                        <<FalseVal>>, NoFault)
     IN RaceCaches(cp, cp.hp)
  /\ rpc' = "done"
  /\ UNCHANGED <<store, wpc, rdg>>
  /\ RaceFrame

\* Puts, 1758..1789: PreSave and OrmFromIntf, then DatastorePut
RaceDatastorePut ==
  /\ wpc = "start"
  /\ wop.op = "Puts"
  /\ store' = DatastorePut(store, <<RaceKey>>,
                           <<Entity(RaceKey, wop.val)>>, <<0>>, NoFault).st
  /\ wpc' = "written"
  /\ UNCHANGED <<reqStore, instStore, sharedStore, heap, rpc, rdg>>
  /\ RaceFrame

\* Puts, 1790..1796: PostSave, which ends with CacheDelete
RacePostSave ==
  /\ wpc = "written"
  /\ wop.op = "Puts"
  /\ RaceCaches(PostSave(reqStore, instStore, sharedStore, <<RaceKey>>,
                         <<Entity(RaceKey, wop.val)>>, NoFault), heap)
  /\ wpc' = "done"
  /\ UNCHANGED <<store, rpc, rdg>>
  /\ RaceFrame

\* Deletes, 1801..1803: DatastoreDelete
RaceDatastoreDelete ==
  /\ wpc = "start"
  /\ wop.op = "Deletes"
  /\ store' = DatastoreDelete(store, <<RaceKey>>, NoFault).st
  /\ wpc' = "written"
  /\ UNCHANGED <<reqStore, instStore, sharedStore, heap, rpc, rdg>>
  /\ RaceFrame

\* Deletes, 1804: CacheDelete
RaceCacheDelete ==
  /\ wpc = "written"
  /\ wop.op = "Deletes"
  /\ RaceCaches(CacheDelete(reqStore, instStore, sharedStore, <<RaceKey>>,
                            NoFault), heap)
  /\ wpc' = "done"
  /\ UNCHANGED <<store, rpc, rdg>>
  /\ RaceFrame

NextRace ==
  \/ RaceCacheGet
  \/ RaceDatastoreGet
  \/ RacePostLoad
  \/ RaceNegative
  \/ RaceDatastorePut
  \/ RacePostSave
  \/ RaceDatastoreDelete
  \/ RaceCacheDelete

SpecRace == InitRace /\ [][NextRace]_vars

\* the entry e of a cache tier says what the backend holds under RaceKey:
\* a negative while it holds nothing, its entity otherwise
AgreesWithBackend(e) ==
  \/ e = NoEntry
  \/ e = Negative /\ store[RaceKey] = 0
  \/ /\ e \notin {NoEntry, Negative}
     /\ store[RaceKey] # 0
     /\ EntryEntity(heap, e).val = store[RaceKey]

\* C28: for a Gets and a Puts (or Deletes) on the same key running
\* concurrently, in every interleaving of their backend and cache steps,
\* once both calls have returned no cache tier holds a value for the key
\* that differs from the backend's current value.
C28_NoStaleEntryAfterRace ==
  rpc = "done" /\ wpc = "done" =>
    /\ tm.rc => AgreesWithBackend(reqStore[Raw(RaceKey)])
    /\ UseInstance => AgreesWithBackend(instStore[Pfx(RaceKey)])
    /\ UseShared => AgreesWithBackend(sharedStore[Pfx(RaceKey)])

----------------------------------------------------------------------------
(* The entity that Gets filled and the caches.  CachePut hands dst[i], the   *)
(* pointer the caller passed, to the request store and to the instance       *)
(* cache (1834..1842); safestore keeps the value it is given.  The caller    *)
(* still holds the pointer when Gets has returned.                           *)

\* the keys whose entity the last Gets put into the request store or the
\* instance cache
PutByLast ==
  {k \in Keys : \E h \in Idx(log) :
     /\ log[h].ev = "put" /\ log[h].tier \in {"rc", "pc"}
     /\ log[h].key = k /\ log[h].arg = "pos"}

\* the object that CachePut stored for key k
StoredObj(k) == IF tm.rc THEN reqStore[Raw(k)].o ELSE instStore[Pfx(k)].o

\* the caller assigns payload v to the entity that the Gets just returned
\* filled for key k, and does not save it
MutateEntity ==
  /\ last.op = "Gets"
  /\ \E k \in PutByLast, v \in Vals :
       /\ heap[StoredObj(k)].val # v
       /\ heap' = [heap EXCEPT ![StoredObj(k)].val = v]
       /\ last' = [op |-> "Mutate", key |-> k, old |-> heap[StoredObj(k)],
                   new |-> v]
  /\ prev' = last
  /\ log' = <<>>
  /\ UNCHANGED <<tm, sharedUp, store, reqStore, instStore, sharedStore, pre,
                 nops, nfaults>>
  /\ UNCHANGED notDb

NextAlias ==
  \/ DoGets(Singles, MaxLoadOps)
  \/ MutateEntity

SpecAlias == Init /\ [][NextAlias]_vars

\* the last call is a Gets with the cache for the key whose entity the caller
\* changed just before, and the request store or the instance cache served it
HitAfterMutate ==
  /\ last.op = "Gets" /\ last.useCache
  /\ prev.op = "Mutate"
  /\ last.keys = <<prev.key>>
  /\ last.cres[1] = CacheHit
  /\ FoundIn(1) \cap {"rc", "pc"} # {}

\* C29: the value held for a key in the request and process tiers is
\* independent of the entity object handed to the caller: mutating the entity
\* that Gets filled, after the call has returned and without saving it, does
\* not change what a later Gets for the same key returns from the cache.
C29_CacheIndependentOfCallerEntity ==
  HitAfterMutate => last.dst[1].val = prev.old.val

----------------------------------------------------------------------------
(* LoadOne and its useCache argument.  The driver's UseCache returns the     *)
(* preference it is given.                                                   *)

\* the call r with the useCache argument it was made with on its record
CalledWith(useCache, r) == [r EXCEPT !.res = @ @@ [useCache |-> useCache]]

\* LoadOne(ctx, useCache, maybeCreate, entity) with no fault of a collaborator
DoLoadOneWith(max) ==
  \E useCache \in BOOLEAN, maybeCreate \in BOOLEAN, id \in Keys \cup {0} :
    \E val \in Vals, alloc \in [1..1 -> Keys] :
      /\ alloc[1] = id \/ (id = 0 /\ store[alloc[1]] = 0)
      /\ StepLoad(CalledWith(useCache,
                             LoadOne(reqStore, instStore, sharedStore, heap,
                                     store, useCache, maybeCreate,
                                     Entity(id, val), alloc, NoFault)),
                  <<>>, NoFault, max)

NextLoadArgs ==
  \/ DoLoadOneWith(MaxLoadOps)
  \/ NewContext(MaxLoadOps)

SpecLoadArgs == Init /\ [][NextLoadArgs]_vars

\* the last call looked into a cache tier, or put something into one
TiersTouched ==
  \E h \in Idx(log) : log[h].ev \in {"probe", "put"}

\* the last call is a LoadOne of an entity that has its key, of a type with
\* a cache tier
LoadOneOfCachedType ==
  /\ last.op = "LoadOne"
  /\ last.entity.id # 0
  /\ tm.rc \/ tm.pc \/ tm.mc

\* C30: LoadOne consults and populates the cache tiers exactly when its
\* useCache argument (as adjusted by the driver's UseCache) is true,
\* independently of the value of maybeCreate.
C30_LoadOneHonoursUseCache ==
  LoadOneOfCachedType => (TiersTouched <=> last.useCache)

\* what decides instead: the maybeCreate argument
LoadOneCachesWhenMaybeCreate ==
  LoadOneOfCachedType => (TiersTouched <=> last.maybeCreate)

====
